---------------------------- MODULE Spec2Model ----------------------------
(***************************************************************************)
(* A model of the Repeater_Tarot repository: the two hexagram programs     *)
(* (I-CHING.py, I-CHING3.py) and the tarot programs (tarot_reader.py,      *)
(* TAROT.py, RepeatTarot.py).                                              *)
(*                                                                         *)
(* Conventions.  A Python list is a TLA+ sequence, so the Python index i   *)
(* is the TLA+ index i + 1.  Optional[x] is a sequence of at most one      *)
(* element: None is << >> and a present value v is << v >>.  The eight     *)
(* trigram glyphs are written by their English names and the em dash of    *)
(* the sources is written "--".  A digest is a sequence of bytes.  SHA-256 *)
(* is an injective symbolic digest; PBKDF2 and the iterated SHA-512 are    *)
(* functions sampled lazily: the first derivation of an input picks its    *)
(* block and every later derivation of the same input returns that block.  *)
(***************************************************************************)
EXTENDS Integers, Sequences, FiniteSets, TLC

VARIABLES
  clock,        \* the operating system's UTC clock, in seconds
  entropy,      \* the blocks an iterated hash may map a not yet derived input to
  kdf,          \* the iterated hashes as sampled so far: input -> block
  prog,         \* the program of the current run
  query,        \* the question handed to the run
  show_nuclear, \* not --no-nuclear
  pc,           \* control point of the current run
  ts,           \* cast: timestamp
  seed,         \* cast: seed
  full_hash,    \* cast: full_hash / auth_hash
  lines,        \* cast: lines
  bits,         \* cast: bits
  moving_idx,   \* cast: moving_idx / moving_positions
  result,       \* the value the run's reading function returned (Optional)
  history,      \* the results of the earlier runs, oldest first
  in_bits,      \* lookup: the pattern to resolve
  meta,         \* lookup: the resolved record (Optional)
  deck,         \* tarot_reader: TarotReader.deck.cards
  spread,       \* tarot: the number of cards of the spread
  available_indices, \* tarot_reader draw_cards: available_indices
  drawn_cards,  \* draw_cards: drawn_cards / drawn
  pbkdf2_fails, \* hashlib.pbkdf2_hmac raises in this build
  arg_query,    \* main: args.query (Optional text)
  arg_seed,     \* I-CHING3 main: args.seed (Optional text)
  arg_save,     \* main: args.autosave / args.save is given
  arg_bundle,   \* I-CHING main: args.bundle is given
  typed,        \* the line typed at (or piped to) the question prompt
  typed_spread, \* the line typed at the spread prompt, or argv[1] (Optional)
  isatty,       \* tarot_reader main: sys.stdin.isatty()
  save_fails,   \* opening or writing the save file raises
  bundle_fails, \* opening or parsing the bundle file raises
  shown,        \* what the run has displayed on the console, in order
  warned,       \* the messages the run has written to stderr, in order
  exit_code,    \* the status the process ended with (Optional)
  reversals_enabled, \* TAROT: TarotApp.reversals_enabled
  interactive_deck,  \* TAROT run_interactive: interactive_deck (items in order)
  available_hashes,  \* TAROT run_interactive: available_hashes
  choices,      \* TAROT run_interactive: choices
  typed_lines,  \* TAROT: the lines typed after the question, not yet read
  in_block,     \* line value: the entropy block handed to the function
  line_out      \* line value: what each program's function returned (Optional)

\* The variables of the tarot programs
tarot == <<deck, spread, available_indices, drawn_cards, pbkdf2_fails>>

\* The command line, the console and the files of a run
args == <<arg_query, arg_seed, arg_save, arg_bundle, typed, typed_spread, isatty,
          save_fails, bundle_fails>>

cli == <<args, shown, warned, exit_code>>

\* The variables of TAROT.py's interactive selection
pool == <<reversals_enabled, interactive_deck, available_hashes, choices, typed_lines>>

\* The variables of the line-value functions taken alone
fn == <<in_block, line_out>>

vars == <<clock, entropy, kdf, prog, query, show_nuclear, pc, ts, seed,
          full_hash, lines, bits, moving_idx, result, history, in_bits, meta, tarot,
          cli, pool, fn>>

-----------------------------------------------------------------------------
(* Bounds of the model *)

\* The clock runs from 0 to MaxClock seconds.
MaxClock == 1

\* The questions asked.
Queries == {"a", "b"}

\* The question of a single run.
OneQuery == {"a"}

-----------------------------------------------------------------------------
(* Python values *)

None == << >>

Some(v) == << v >>

\* list[lo:hi]
Slice(list, lo, hi) == SubSeq(list, lo + 1, hi)

\* (b >> i) & 1
BitAt(b, i) == (b \div (2 ^ i)) % 2

Digit == <<"0", "1", "2", "3", "4", "5", "6", "7", "8", "9">>

RECURSIVE str(_)
\* str(n) of a natural number
str(n) == IF n < 10 THEN Digit[n + 1] ELSE str(n \div 10) \o Digit[(n % 10) + 1]

\* datetime.now(timezone.utc).isoformat(timespec="seconds") at clock second c
\* of the hour the model runs in
isoformat(c) ==
  "2024-01-01T00:" \o Digit[((c \div 600) % 6) + 1] \o Digit[((c \div 60) % 10) + 1]
    \o ":" \o Digit[((c % 60) \div 10) + 1] \o Digit[(c % 10) + 1] \o "+00:00"

\* dict.get(key, default) of a dict literal written as the sequence of its
\* items: a key written twice keeps the value written last.
DictGet(items, key, default) ==
  LET hit == {i \in DOMAIN items : items[i].key = key}
  IN  IF hit = {} THEN default
      ELSE items[CHOOSE i \in hit : \A j \in hit : j <= i].value

\* dict.get(field, default) of a dict written as a record; {} is << >>
RecGet(rec, field, default) == IF field \in DOMAIN rec THEN rec[field] ELSE default

-----------------------------------------------------------------------------
(* Configuration *)

PBKDF2_ITERS == 888888

DKLEN == 32

LINE_OLD_YIN == 6

LINE_YOUNG_YANG == 7

LINE_YOUNG_YIN == 8

LINE_OLD_YANG == 9

Programs == {"I-CHING", "I-CHING3"}

(* I-CHING.py: data *)

\* The dict literal HEX_META as the sequence of its 64 items, in source order:
\* key (lower trigram, upper trigram), value (number, name).
HEX_META ==
  <<
   [key |-> <<"Earth", "Heaven">>, value |-> <<1, "Qian / The Creative">>],
   [key |-> <<"Heaven", "Earth">>, value |-> <<2, "Kun / The Receptive">>],
   [key |-> <<"Water", "Thunder">>, value |-> <<3, "Zhun / Difficulty at the Beginning">>],
   [key |-> <<"Thunder", "Water">>, value |-> <<4, "Meng / Youthful Folly">>],
   [key |-> <<"Earth", "Water">>, value |-> <<5, "Xu / Waiting">>],
   [key |-> <<"Water", "Heaven">>, value |-> <<6, "Song / Conflict">>],
   [key |-> <<"Earth", "Mountain">>, value |-> <<7, "Shi / The Army">>],
   [key |-> <<"Mountain", "Earth">>, value |-> <<8, "Bi / Holding Together">>],
   [key |-> <<"Heaven", "Thunder">>, value |-> <<9, "Xiao Chu / Small Taming">>],
   [key |-> <<"Thunder", "Heaven">>, value |-> <<10, "Lu / Treading">>],
   [key |-> <<"Earth", "Heaven">>, value |-> <<11, "Tai / Peace">>],
   [key |-> <<"Heaven", "Earth">>, value |-> <<12, "Pi / Standstill">>],
   [key |-> <<"Thunder", "Heaven">>, value |-> <<13, "Tong Ren / Fellowship">>],
   [key |-> <<"Heaven", "Fire">>, value |-> <<14, "Da You / Great Possession">>],
   [key |-> <<"Earth", "Mountain">>, value |-> <<15, "Qian / Modesty">>],
   [key |-> <<"Mountain", "Earth">>, value |-> <<16, "Yu / Enthusiasm">>],
   [key |-> <<"Lake", "Earth">>, value |-> <<17, "Sui / Following">>],
   [key |-> <<"Earth", "Lake">>, value |-> <<18, "Gu / Work on the Decayed">>],
   [key |-> <<"Lake", "Mountain">>, value |-> <<19, "Lin / Approach">>],
   [key |-> <<"Mountain", "Lake">>, value |-> <<20, "Guan / Contemplation">>],
   [key |-> <<"Fire", "Thunder">>, value |-> <<21, "Shi He / Biting Through">>],
   [key |-> <<"Thunder", "Fire">>, value |-> <<22, "Bi / Grace">>],
   [key |-> <<"Earth", "Water">>, value |-> <<23, "Bo / Splitting Apart">>],
   [key |-> <<"Water", "Earth">>, value |-> <<24, "Fu / Return">>],
   [key |-> <<"Heaven", "Wind">>, value |-> <<25, "Wu Wang / Innocence">>],
   [key |-> <<"Wind", "Heaven">>, value |-> <<26, "Da Chu / Great Taming">>],
   [key |-> <<"Earth", "Thunder">>, value |-> <<27, "Yi / Nourishing">>],
   [key |-> <<"Thunder", "Earth">>, value |-> <<28, "Da Guo / Great Exceeding">>],
   [key |-> <<"Water", "Water">>, value |-> <<29, "Kan / The Abysmal">>],
   [key |-> <<"Fire", "Fire">>, value |-> <<30, "Li / The Clinging">>],
   [key |-> <<"Lake", "Thunder">>, value |-> <<31, "Xian / Influence">>],
   [key |-> <<"Thunder", "Lake">>, value |-> <<32, "Heng / Duration">>],
   [key |-> <<"Earth", "Heaven">>, value |-> <<33, "Dun / Retreat">>],
   [key |-> <<"Heaven", "Lake">>, value |-> <<34, "Da Zhuang / Great Power">>],
   [key |-> <<"Earth", "Fire">>, value |-> <<35, "Jin / Progress">>],
   [key |-> <<"Fire", "Earth">>, value |-> <<36, "Ming Yi / Darkening of the Light">>],
   [key |-> <<"Earth", "Fire">>, value |-> <<37, "Jia Ren / Family">>],
   [key |-> <<"Fire", "Earth">>, value |-> <<38, "Kui / Opposition">>],
   [key |-> <<"Water", "Mountain">>, value |-> <<39, "Jian / Obstruction">>],
   [key |-> <<"Mountain", "Water">>, value |-> <<40, "Xie / Deliverance">>],
   [key |-> <<"Earth", "Wind">>, value |-> <<41, "Sun / Decrease">>],
   [key |-> <<"Wind", "Earth">>, value |-> <<42, "Yi / Increase">>],
   [key |-> <<"Heaven", "Thunder">>, value |-> <<43, "Guai / Breakthrough">>],
   [key |-> <<"Thunder", "Heaven">>, value |-> <<44, "Gou / Coming to Meet">>],
   [key |-> <<"Lake", "Earth">>, value |-> <<45, "Cui / Gathering">>],
   [key |-> <<"Earth", "Wind">>, value |-> <<46, "Sheng / Pushing Upward">>],
   [key |-> <<"Heaven", "Fire">>, value |-> <<47, "Kun / Oppression">>],
   [key |-> <<"Fire", "Heaven">>, value |-> <<48, "Jing / The Well">>],
   [key |-> <<"Mountain", "Mountain">>, value |-> <<49, "Ge / Revolution">>],
   [key |-> <<"Wind", "Wind">>, value |-> <<50, "Ding / The Cauldron">>],
   [key |-> <<"Thunder", "Thunder">>, value |-> <<51, "Zhen / Arousing (Thunder)">>],
   [key |-> <<"Mountain", "Mountain">>, value |-> <<52, "Gen / Keeping Still (Mountain)">>],
   [key |-> <<"Wind", "Water">>, value |-> <<53, "Jian / Development">>],
   [key |-> <<"Water", "Wind">>, value |-> <<54, "Gui Mei / Marrying Maiden">>],
   [key |-> <<"Thunder", "Fire">>, value |-> <<55, "Feng / Abundance">>],
   [key |-> <<"Fire", "Thunder">>, value |-> <<56, "Lu / The Wanderer">>],
   [key |-> <<"Wind", "Fire">>, value |-> <<57, "Xun / Gentle (Wind)">>],
   [key |-> <<"Fire", "Wind">>, value |-> <<58, "Dui / Joyous (Lake)">>],
   [key |-> <<"Water", "Earth">>, value |-> <<59, "Huan / Dispersion">>],
   [key |-> <<"Earth", "Water">>, value |-> <<60, "Jie / Limitation">>],
   [key |-> <<"Thunder", "Fire">>, value |-> <<61, "Zhong Fu / Inner Truth">>],
   [key |-> <<"Fire", "Thunder">>, value |-> <<62, "Xiao Guo / Small Exceeding">>],
   [key |-> <<"Water", "Fire">>, value |-> <<63, "Ji Ji / After Completion">>],
   [key |-> <<"Fire", "Water">>, value |-> <<64, "Wei Ji / Before Completion">>]
  >>

TRIGRAMS ==
  [Heaven |-> "Qian (Heaven)", Lake |-> "Dui (Lake)", Fire |-> "Li (Fire)",
   Thunder |-> "Zhen (Thunder)", Wind |-> "Xun (Wind/Wood)", Water |-> "Kan (Water)",
   Mountain |-> "Gen (Mountain)", Earth |-> "Kun (Earth)"]

TRIGRAM_IMAGE ==
  [Heaven |-> "Heaven moves strongly", Lake |-> "Lake is joyous and open",
   Fire |-> "Fire clings and illuminates", Thunder |-> "Thunder arouses and stirs",
   Wind |-> "Wind/Wood gently penetrates", Water |-> "Water flows in danger",
   Mountain |-> "Mountain keeps still", Earth |-> "Earth is receptive and devoted"]

\* The dict literal CONCISE_GLOSS as the sequence of its items.
CONCISE_GLOSS ==
  <<
   [key |-> 1,
    value |-> [name |-> "Qian / The Creative",
              judgement |-> "Creative power. Persevere.",
              image |-> "Heaven moves strongly."]],
   [key |-> 2,
    value |-> [name |-> "Kun / The Receptive",
              judgement |-> "Receptive devotion. Yield and support.",
              image |-> "Earth's condition is receptive."]],
   [key |-> 24,
    value |-> [name |-> "Fu / Return",
              judgement |-> "Return after difficulty; begin again.",
              image |-> "Thunder within Earth: movement returns."]],
   [key |-> 29,
    value |-> [name |-> "Kan / The Abysmal",
              judgement |-> "Through danger, sincerity gains success.",
              image |-> "Water flows unceasing, shaping the gorge."]],
   [key |-> 34,
    value |-> [name |-> "Da Zhuang / Great Power",
              judgement |-> "Strength used correctly brings success.",
              image |-> "Heaven over Thunder: power within action."]],
   [key |-> 36,
    value |-> [name |-> "Ming Yi / Darkening of the Light",
              judgement |-> "Hide the light; act with inner clarity.",
              image |-> "Light subdued beneath Earth."]],
   [key |-> 37,
    value |-> [name |-> "Jia Ren / Family",
              judgement |-> "Order in the household; roles well kept.",
              image |-> "Fire over Earth: the hearth organizes the home."]],
   [key |-> 47,
    value |-> [name |-> "Kun / Oppression",
              judgement |-> "Oppression; remain true, find inner wellspring.",
              image |-> "Lake without inflow beneath Fire."]],
   [key |-> 28,
    value |-> [name |-> "Da Guo / Great Exceeding",
              judgement |-> "Excess weight on the beam; act with care.",
              image |-> "Lake over Wind: great strain, great crossing."]],
   [key |-> 31,
    value |-> [name |-> "Xian / Influence",
              judgement |-> "Mutual attraction; be open and sincere.",
              image |-> "Lake over Mountain: gentle attraction."]],
   [key |-> 63,
    value |-> [name |-> "Ji Ji / After Completion",
              judgement |-> "Order established; stay vigilant.",
              image |-> "Water above Fire: completed yet beware."]],
   [key |-> 64,
    value |-> [name |-> "Wei Ji / Before Completion",
              judgement |-> "Not yet complete; prepare.",
              image |-> "Fire above Water: almost complete."]]
  >>

-----------------------------------------------------------------------------
(* I-CHING3.py: data *)

PBKDF2_ITERATIONS == 888888

DERIVED_KEY_LENGTH == 32

\* The dict literal HEXAGRAM_DATABASE as the sequence of its 64 items, in
\* source order: key (lower trigram, upper trigram).  The judgement and image
\* texts are cut after their first punctuation mark, chinese is written
\* "zh<number>", and lines is the number of line texts of the entry.
HEXAGRAM_DATABASE ==
  <<
   [key |-> <<"Heaven", "Heaven">>,
    value |-> [number |-> 1, name |-> "Qian / The Creative",
              chinese |-> "zh1", judgement |-> "The Creative works sublime success,",
              image |-> "Heaven above Heaven:", lines |-> 6]],
   [key |-> <<"Earth", "Earth">>,
    value |-> [number |-> 2, name |-> "Kun / The Receptive",
              chinese |-> "zh2", judgement |-> "The Receptive brings about sublime success,",
              image |-> "Earth above Earth:", lines |-> 6]],
   [key |-> <<"Water", "Thunder">>,
    value |-> [number |-> 3, name |-> "Zhun / Difficulty at the Beginning",
              chinese |-> "zh3", judgement |-> "Difficulty at the Beginning works supreme success,",
              image |-> "Clouds and Thunder:", lines |-> 6]],
   [key |-> <<"Mountain", "Water">>,
    value |-> [number |-> 4, name |-> "Meng / Youthful Folly",
              chinese |-> "zh4", judgement |-> "Youthful Folly has success.",
              image |-> "A spring wells up at the foot of the mountain:", lines |-> 6]],
   [key |-> <<"Water", "Heaven">>,
    value |-> [number |-> 5, name |-> "Xu / Waiting (Nourishment)",
              chinese |-> "zh5", judgement |-> "Waiting.",
              image |-> "Clouds rise up to heaven:", lines |-> 6]],
   [key |-> <<"Heaven", "Water">>,
    value |-> [number |-> 6, name |-> "Song / Conflict",
              chinese |-> "zh6", judgement |-> "Conflict.",
              image |-> "Heaven and Water go their opposite ways:", lines |-> 6]],
   [key |-> <<"Earth", "Water">>,
    value |-> [number |-> 7, name |-> "Shi / The Army",
              chinese |-> "zh7", judgement |-> "The Army.",
              image |-> "In the middle of the earth is water:", lines |-> 6]],
   [key |-> <<"Water", "Earth">>,
    value |-> [number |-> 8, name |-> "Bi / Holding Together (Union)",
              chinese |-> "zh8", judgement |-> "Holding Together brings good fortune.",
              image |-> "On the earth is water:", lines |-> 6]],
   [key |-> <<"Wind", "Heaven">>,
    value |-> [number |-> 9, name |-> "Xiao Chu / The Taming Power of the Small",
              chinese |-> "zh9", judgement |-> "The Taming Power of the Small has success.",
              image |-> "The wind drives across heaven:", lines |-> 6]],
   [key |-> <<"Heaven", "Lake">>,
    value |-> [number |-> 10, name |-> "Lu / Treading (Conduct)",
              chinese |-> "zh10", judgement |-> "Treading.",
              image |-> "Heaven above,", lines |-> 6]],
   [key |-> <<"Earth", "Heaven">>,
    value |-> [number |-> 11, name |-> "Tai / Peace",
              chinese |-> "zh11", judgement |-> "Peace.",
              image |-> "Heaven and earth unite:", lines |-> 6]],
   [key |-> <<"Heaven", "Earth">>,
    value |-> [number |-> 12, name |-> "Pi / Standstill (Stagnation)",
              chinese |-> "zh12", judgement |-> "Standstill.",
              image |-> "Heaven and earth do not unite:", lines |-> 6]],
   [key |-> <<"Heaven", "Fire">>,
    value |-> [number |-> 13, name |-> "Tong Ren / Fellowship with Men",
              chinese |-> "zh13", judgement |-> "Fellowship with Men in the open.",
              image |-> "Heaven together with fire:", lines |-> 6]],
   [key |-> <<"Fire", "Heaven">>,
    value |-> [number |-> 14, name |-> "Da You / Possession in Great Measure",
              chinese |-> "zh14", judgement |-> "Possession in Great Measure.",
              image |-> "Fire in heaven above:", lines |-> 6]],
   [key |-> <<"Earth", "Mountain">>,
    value |-> [number |-> 15, name |-> "Qian / Modesty",
              chinese |-> "zh15", judgement |-> "Modesty creates success.",
              image |-> "Within the earth,", lines |-> 6]],
   [key |-> <<"Thunder", "Earth">>,
    value |-> [number |-> 16, name |-> "Yu / Enthusiasm",
              chinese |-> "zh16", judgement |-> "Enthusiasm.",
              image |-> "Thunder comes resounding out of the earth:", lines |-> 6]],
   [key |-> <<"Lake", "Thunder">>,
    value |-> [number |-> 17, name |-> "Sui / Following",
              chinese |-> "zh17", judgement |-> "Following has supreme success.",
              image |-> "Thunder in the middle of the lake:", lines |-> 6]],
   [key |-> <<"Mountain", "Wind">>,
    value |-> [number |-> 18, name |-> "Gu / Work on What Has Been Spoiled (Decay)",
              chinese |-> "zh18", judgement |-> "Work on What Has Been Spoiled has supreme success.",
              image |-> "The wind blows low on the mountain:", lines |-> 6]],
   [key |-> <<"Earth", "Lake">>,
    value |-> [number |-> 19, name |-> "Lin / Approach",
              chinese |-> "zh19", judgement |-> "Approach has supreme success.",
              image |-> "The earth above the lake:", lines |-> 6]],
   [key |-> <<"Wind", "Earth">>,
    value |-> [number |-> 20, name |-> "Guan / Contemplation (View)",
              chinese |-> "zh20", judgement |-> "Contemplation.",
              image |-> "The wind blows over the earth:", lines |-> 6]],
   [key |-> <<"Fire", "Thunder">>,
    value |-> [number |-> 21, name |-> "Shi He / Biting Through",
              chinese |-> "zh21", judgement |-> "Biting Through has success.",
              image |-> "Thunder and lightning:", lines |-> 6]],
   [key |-> <<"Mountain", "Fire">>,
    value |-> [number |-> 22, name |-> "Bi / Grace",
              chinese |-> "zh22", judgement |-> "Grace has success.",
              image |-> "Fire at the foot of the mountain:", lines |-> 6]],
   [key |-> <<"Mountain", "Earth">>,
    value |-> [number |-> 23, name |-> "Bo / Splitting Apart",
              chinese |-> "zh23", judgement |-> "Splitting Apart.",
              image |-> "The mountain rests on the earth:", lines |-> 6]],
   [key |-> <<"Earth", "Thunder">>,
    value |-> [number |-> 24, name |-> "Fu / Return (The Turning Point)",
              chinese |-> "zh24", judgement |-> "Return.",
              image |-> "Thunder within the earth:", lines |-> 6]],
   [key |-> <<"Heaven", "Thunder">>,
    value |-> [number |-> 25, name |-> "Wu Wang / Innocence (The Unexpected)",
              chinese |-> "zh25", judgement |-> "Innocence.",
              image |-> "Under heaven thunder rolls:", lines |-> 6]],
   [key |-> <<"Mountain", "Heaven">>,
    value |-> [number |-> 26, name |-> "Da Chu / The Taming Power of the Great",
              chinese |-> "zh26", judgement |-> "The Taming Power of the Great.",
              image |-> "Heaven within the mountain:", lines |-> 6]],
   [key |-> <<"Mountain", "Thunder">>,
    value |-> [number |-> 27, name |-> "Yi / The Corners of the Mouth (Providing Nourishment)",
              chinese |-> "zh27", judgement |-> "The Corners of the Mouth.",
              image |-> "At the foot of the mountain,", lines |-> 6]],
   [key |-> <<"Lake", "Wind">>,
    value |-> [number |-> 28, name |-> "Da Guo / Preponderance of the Great",
              chinese |-> "zh28", judgement |-> "Preponderance of the Great.",
              image |-> "The lake rises above the trees:", lines |-> 6]],
   [key |-> <<"Water", "Water">>,
    value |-> [number |-> 29, name |-> "Kan / The Abysmal (Water)",
              chinese |-> "zh29", judgement |-> "The Abysmal repeated.",
              image |-> "Water flows on uninterruptedly and reaches its goal:", lines |-> 6]],
   [key |-> <<"Fire", "Fire">>,
    value |-> [number |-> 30, name |-> "Li / The Clinging (Fire)",
              chinese |-> "zh30", judgement |-> "The Clinging.",
              image |-> "That which is bright rises twice:", lines |-> 6]],
   [key |-> <<"Lake", "Mountain">>,
    value |-> [number |-> 31, name |-> "Xian / Influence (Wooing)",
              chinese |-> "zh31", judgement |-> "Influence.",
              image |-> "A lake on the mountain:", lines |-> 6]],
   [key |-> <<"Thunder", "Wind">>,
    value |-> [number |-> 32, name |-> "Heng / Duration",
              chinese |-> "zh32", judgement |-> "Duration.",
              image |-> "Thunder and wind:", lines |-> 6]],
   [key |-> <<"Heaven", "Mountain">>,
    value |-> [number |-> 33, name |-> "Dun / Retreat",
              chinese |-> "zh33", judgement |-> "Retreat.",
              image |-> "Mountain under heaven:", lines |-> 6]],
   [key |-> <<"Thunder", "Heaven">>,
    value |-> [number |-> 34, name |-> "Da Zhuang / The Power of the Great",
              chinese |-> "zh34", judgement |-> "The Power of the Great.",
              image |-> "Thunder in heaven above:", lines |-> 6]],
   [key |-> <<"Fire", "Earth">>,
    value |-> [number |-> 35, name |-> "Jin / Progress",
              chinese |-> "zh35", judgement |-> "Progress.",
              image |-> "The sun rises over the earth:", lines |-> 6]],
   [key |-> <<"Earth", "Fire">>,
    value |-> [number |-> 36, name |-> "Ming Yi / Darkening of the Light",
              chinese |-> "zh36", judgement |-> "Darkening of the Light.",
              image |-> "The light has sunk into the earth:", lines |-> 6]],
   [key |-> <<"Wind", "Fire">>,
    value |-> [number |-> 37, name |-> "Jia Ren / The Family",
              chinese |-> "zh37", judgement |-> "The Family.",
              image |-> "Wind comes forth from fire:", lines |-> 6]],
   [key |-> <<"Fire", "Lake">>,
    value |-> [number |-> 38, name |-> "Kui / Opposition",
              chinese |-> "zh38", judgement |-> "Opposition.",
              image |-> "Above,", lines |-> 6]],
   [key |-> <<"Water", "Mountain">>,
    value |-> [number |-> 39, name |-> "Jian / Obstruction",
              chinese |-> "zh39", judgement |-> "Obstruction.",
              image |-> "Water on the mountain:", lines |-> 6]],
   [key |-> <<"Thunder", "Water">>,
    value |-> [number |-> 40, name |-> "Xie / Deliverance",
              chinese |-> "zh40", judgement |-> "Deliverance.",
              image |-> "Thunder and rain set in:", lines |-> 6]],
   [key |-> <<"Mountain", "Lake">>,
    value |-> [number |-> 41, name |-> "Sun / Decrease",
              chinese |-> "zh41", judgement |-> "Decrease combined with sincerity brings about supreme good fortune without blame.",
              image |-> "At the foot of the mountain,", lines |-> 6]],
   [key |-> <<"Wind", "Thunder">>,
    value |-> [number |-> 42, name |-> "Yi / Increase",
              chinese |-> "zh42", judgement |-> "Increase.",
              image |-> "Wind and thunder:", lines |-> 6]],
   [key |-> <<"Lake", "Heaven">>,
    value |-> [number |-> 43, name |-> "Guai / Break-through (Resoluteness)",
              chinese |-> "zh43", judgement |-> "Break-through.",
              image |-> "The lake has risen up to heaven:", lines |-> 6]],
   [key |-> <<"Heaven", "Wind">>,
    value |-> [number |-> 44, name |-> "Gou / Coming to Meet",
              chinese |-> "zh44", judgement |-> "Coming to Meet.",
              image |-> "Under heaven,", lines |-> 6]],
   [key |-> <<"Lake", "Earth">>,
    value |-> [number |-> 45, name |-> "Cui / Gathering Together (Massing)",
              chinese |-> "zh45", judgement |-> "Gathering Together.",
              image |-> "Over the earth,", lines |-> 6]],
   [key |-> <<"Earth", "Wind">>,
    value |-> [number |-> 46, name |-> "Sheng / Pushing Upward",
              chinese |-> "zh46", judgement |-> "Pushing Upward has supreme success.",
              image |-> "Within the earth,", lines |-> 6]],
   [key |-> <<"Lake", "Water">>,
    value |-> [number |-> 47, name |-> "Kun / Oppression (Exhaustion)",
              chinese |-> "zh47", judgement |-> "Oppression.",
              image |-> "There is no water in the lake:", lines |-> 6]],
   [key |-> <<"Water", "Wind">>,
    value |-> [number |-> 48, name |-> "Jing / The Well",
              chinese |-> "zh48", judgement |-> "The Well.",
              image |-> "Water over wood:", lines |-> 6]],
   [key |-> <<"Lake", "Fire">>,
    value |-> [number |-> 49, name |-> "Ge / Revolution (Molting)",
              chinese |-> "zh49", judgement |-> "Revolution.",
              image |-> "Fire in the lake:", lines |-> 6]],
   [key |-> <<"Fire", "Wind">>,
    value |-> [number |-> 50, name |-> "Ding / The Caldron",
              chinese |-> "zh50", judgement |-> "The Caldron.",
              image |-> "Fire over wood:", lines |-> 6]],
   [key |-> <<"Thunder", "Thunder">>,
    value |-> [number |-> 51, name |-> "Zhen / The Arousing (Shock, Thunder)",
              chinese |-> "zh51", judgement |-> "Shock brings success.",
              image |-> "Thunder repeated:", lines |-> 6]],
   [key |-> <<"Mountain", "Mountain">>,
    value |-> [number |-> 52, name |-> "Gen / Keeping Still (Mountain)",
              chinese |-> "zh52", judgement |-> "Keeping Still.",
              image |-> "Mountains standing close together:", lines |-> 6]],
   [key |-> <<"Wind", "Mountain">>,
    value |-> [number |-> 53, name |-> "Jian / Development (Gradual Progress)",
              chinese |-> "zh53", judgement |-> "Development.",
              image |-> "On the mountain,", lines |-> 6]],
   [key |-> <<"Thunder", "Lake">>,
    value |-> [number |-> 54, name |-> "Gui Mei / The Marrying Maiden",
              chinese |-> "zh54", judgement |-> "The Marrying Maiden.",
              image |-> "Thunder over the lake:", lines |-> 6]],
   [key |-> <<"Thunder", "Fire">>,
    value |-> [number |-> 55, name |-> "Feng / Abundance (Fullness)",
              chinese |-> "zh55", judgement |-> "Abundance has success.",
              image |-> "Both thunder and lightning come:", lines |-> 6]],
   [key |-> <<"Fire", "Mountain">>,
    value |-> [number |-> 56, name |-> "Lu / The Wanderer",
              chinese |-> "zh56", judgement |-> "The Wanderer.",
              image |-> "Fire on the mountain:", lines |-> 6]],
   [key |-> <<"Wind", "Wind">>,
    value |-> [number |-> 57, name |-> "Xun / The Gentle (Wind)",
              chinese |-> "zh57", judgement |-> "The Gentle.",
              image |-> "Winds following one upon the other:", lines |-> 6]],
   [key |-> <<"Lake", "Lake">>,
    value |-> [number |-> 58, name |-> "Dui / The Joyous (Lake)",
              chinese |-> "zh58", judgement |-> "The Joyous.",
              image |-> "Lakes resting one on the other:", lines |-> 6]],
   [key |-> <<"Wind", "Water">>,
    value |-> [number |-> 59, name |-> "Huan / Dispersion (Dissolution)",
              chinese |-> "zh59", judgement |-> "Dispersion.",
              image |-> "The wind drives over the water:", lines |-> 6]],
   [key |-> <<"Water", "Lake">>,
    value |-> [number |-> 60, name |-> "Jie / Limitation",
              chinese |-> "zh60", judgement |-> "Limitation.",
              image |-> "Water over lake:", lines |-> 6]],
   [key |-> <<"Wind", "Lake">>,
    value |-> [number |-> 61, name |-> "Zhong Fu / Inner Truth",
              chinese |-> "zh61", judgement |-> "Inner Truth.",
              image |-> "Wind over lake:", lines |-> 6]],
   [key |-> <<"Mountain", "Thunder">>,
    value |-> [number |-> 62, name |-> "Xiao Guo / Preponderance of the Small",
              chinese |-> "zh62", judgement |-> "Preponderance of the Small.",
              image |-> "Thunder on the mountain:", lines |-> 6]],
   [key |-> <<"Water", "Fire">>,
    value |-> [number |-> 63, name |-> "Ji Ji / After Completion",
              chinese |-> "zh63", judgement |-> "After Completion.",
              image |-> "Water over fire:", lines |-> 6]],
   [key |-> <<"Fire", "Water">>,
    value |-> [number |-> 64, name |-> "Wei Ji / Before Completion",
              chinese |-> "zh64", judgement |-> "Before Completion.",
              image |-> "Fire over water:", lines |-> 6]]
  >>

TRIGRAM_SYMBOLS ==
  [Heaven |-> "Qian (Heaven/Creative)", Lake |-> "Dui (Lake/Joyous)",
   Fire |-> "Li (Fire/Clinging)", Thunder |-> "Zhen (Thunder/Arousing)",
   Wind |-> "Xun (Wind/Wood/Gentle)", Water |-> "Kan (Water/Abysmal)",
   Mountain |-> "Gen (Mountain/Keeping Still)", Earth |-> "Kun (Earth/Receptive)"]

-----------------------------------------------------------------------------
(* Hashing *)

\* hashlib.sha256(data).digest(): an injective symbolic digest
sha256(data) == <<"sha256", data>>

\* bytes.hex()
hex(digest) == <<"hex", digest>>

\* the first n characters of a hex string of a symbolic digest
hex_prefix(h, n) == <<"prefix", n, h>>

\* The blocks an iterated hash may return for an input: the block already
\* derived for it, or for an input not yet derived any block of the entropy.
derived(input) == IF input \in DOMAIN kdf THEN {kdf[input]} ELSE entropy

\* The iterated hashes after input was derived to block d
derived_after(input, d) ==
  [k \in DOMAIN kdf \cup {input} |-> IF k = input THEN d ELSE kdf[k]]

\* pbkdf2_hmac that is no function of its input (a salt drawn at random)
pbkdf2_hmac_fresh(base, salt, iters, dklen) == entropy

\* hashlib.pbkdf2_hmac("sha256", base, salt, iters, dklen)
pbkdf2_hmac(base, salt, iters, dklen) ==
  derived(<<"pbkdf2_hmac", base, salt, iters, dklen>>)

\* PBKDF2 after <<base, salt, iters, dklen>> was derived to block d
kdf_after(base, salt, iters, dklen, d) ==
  derived_after(<<"pbkdf2_hmac", base, salt, iters, dklen>>, d)

\* I-CHING.py
pbkdf2(base, salt) == pbkdf2_hmac(base, salt, PBKDF2_ITERS, DKLEN)

\* I-CHING3.py
secure_hash(data, salt) == pbkdf2_hmac(data, salt, PBKDF2_ITERATIONS, DERIVED_KEY_LENGTH)

\* f"{query}|{ts}"
seed_material(q, t) == q \o "|" \o t

\* f"line-{i}"
line_salt(i) == "line-" \o str(i)

-----------------------------------------------------------------------------
(* I-CHING.py: functions *)

\* A line value counted over the four lowest bits of byte 0
line_from_digest_wide(d) ==
  LET b == d[1]
      heads == BitAt(b, 0) + BitAt(b, 1) + BitAt(b, 2) + BitAt(b, 3)
  IN  6 + heads

\* lines 157-161
line_from_digest(d) ==
  LET b == d[1]
      heads == BitAt(b, 0) + BitAt(b, 1) + BitAt(b, 2)
  IN  6 + heads

yin_yang_bit(line_val) == IF line_val \in {6, 8} THEN 0 ELSE 1

\* flip_bit leaving the bit as it is
flip_bit_kept(bit) == bit

flip_bit(bit) == 1 - bit

trigram_from_bits(bits3) ==
  LET order == <<"Earth", "Mountain", "Water", "Wind", "Thunder", "Fire", "Lake", "Heaven">>
      idx == bits3[1] + (bits3[2] * 2) + (bits3[3] * 4)
  IN  order[idx + 1]

\* line 186: the default of HEX_META.get
hex_meta_default(lower, upper) == <<0, TRIGRAMS[upper] \o " over " \o TRIGRAMS[lower]>>

\* image_or_auto without the fallback
image_or_auto_none(gloss_image, auto_image) == gloss_image

\* line 191: gloss.get("image", "") or auto_image
image_or_auto(gloss_image, auto_image) ==
  IF gloss_image # "" THEN gloss_image ELSE auto_image

build_meta(bits6) ==
  LET lower == trigram_from_bits(Slice(bits6, 0, 3))
      upper == trigram_from_bits(Slice(bits6, 3, 6))
      found == DictGet(HEX_META, <<lower, upper>>, hex_meta_default(lower, upper))
      num == found[1]
      name == found[2]
      gloss == DictGet(CONCISE_GLOSS, num, << >>)
      auto_image == TRIGRAM_IMAGE[upper] \o " above " \o TRIGRAM_IMAGE[lower] \o "."
      judgement_text == RecGet(gloss, "judgement", "")
      image_text == image_or_auto(RecGet(gloss, "image", ""), auto_image)
  IN  [number |-> IF num # 0 THEN str(num) ELSE "--",
       name |-> name,
       upper |-> upper,
       lower |-> lower,
       judgement |-> judgement_text,
       image |-> image_text]

\* nuclear_from_bits with the lower trigram taken one line too low
nuclear_from_bits_low(bits6) ==
  <<bits6[1], bits6[2], bits6[3], bits6[3], bits6[4], bits6[5]>>

\* lines 202-204
nuclear_from_bits(bits6) ==
  <<bits6[2], bits6[3], bits6[4], bits6[3], bits6[4], bits6[5]>>

-----------------------------------------------------------------------------
(* I-CHING3.py: functions *)

\* A line value counted over the three highest bits of byte 0
derive_line_value_high(entropy_bytes) ==
  LET byte_value == entropy_bytes[1]
      heads_count == BitAt(byte_value, 5) + BitAt(byte_value, 6) + BitAt(byte_value, 7)
  IN  6 + heads_count

\* lines 1053-1060
derive_line_value(entropy_bytes) ==
  LET byte_value == entropy_bytes[1]
      heads_count == BitAt(byte_value, 0) + BitAt(byte_value, 1) + BitAt(byte_value, 2)
  IN  6 + heads_count

\* A bit that tells the old lines from the young ones
line_to_yin_yang_old(line) == IF line \in {LINE_OLD_YIN, LINE_OLD_YANG} THEN 0 ELSE 1

\* lines 1062-1064
line_to_yin_yang(line) == IF line \in {LINE_OLD_YIN, LINE_YOUNG_YIN} THEN 0 ELSE 1

\* A trigram indexed with the top bit lowest
bits_to_trigram_top_first(bits3) ==
  LET trigram_map == <<"Earth", "Mountain", "Water", "Wind", "Thunder", "Fire", "Lake", "Heaven">>
      index == bits3[3] + (bits3[2] * 2) + (bits3[1] * 4)
  IN  trigram_map[index + 1]

\* lines 1066-1070
bits_to_trigram(bits3) ==
  LET trigram_map == <<"Earth", "Mountain", "Water", "Wind", "Thunder", "Fire", "Lake", "Heaven">>
      index == bits3[1] + (bits3[2] * 2) + (bits3[3] * 4)
  IN  trigram_map[index + 1]

\* hexagram_info_default naming the lower trigram first
hexagram_info_default_swapped(lower, upper) ==
  [number |-> 0,
   name |-> TRIGRAM_SYMBOLS[lower] \o " over " \o TRIGRAM_SYMBOLS[upper],
   chinese |-> "",
   judgement |-> "Information not available.",
   image |-> "The image of " \o TRIGRAM_SYMBOLS[upper] \o " above "
               \o TRIGRAM_SYMBOLS[lower] \o ".",
   lines |-> 0]

\* lines 1088-1095: the default of HEXAGRAM_DATABASE.get
hexagram_info_default(lower, upper) ==
  [number |-> 0,
   name |-> TRIGRAM_SYMBOLS[upper] \o " over " \o TRIGRAM_SYMBOLS[lower],
   chinese |-> "",
   judgement |-> "Information not available.",
   image |-> "The image of " \o TRIGRAM_SYMBOLS[upper] \o " above "
               \o TRIGRAM_SYMBOLS[lower] \o ".",
   lines |-> 0]

get_hexagram_info(lower, upper) ==
  DictGet(HEXAGRAM_DATABASE, <<lower, upper>>, hexagram_info_default(lower, upper))

-----------------------------------------------------------------------------
(* Entropy *)

\* A block of n bytes: the bytes of head, then fill, and last as final byte.
Block(n, head, fill, last) ==
  [i \in 1..n |-> IF i <= Len(head) THEN head[i] ELSE IF i = n THEN last ELSE fill]

\* Blocks whose byte 0 gives each line value: 248 -> 6, 1 -> 7, 6 -> 8, 255 -> 9.
HexEntropy == {Block(DKLEN, <<b>>, 90, 165) : b \in {248, 1, 6, 255}}

\* Two of them, for runs made one after another: 248 -> 6 and 6 -> 8.
LeanEntropy == {Block(DKLEN, <<b>>, 90, 165) : b \in {248, 6}}

Patterns == [1..6 -> {0, 1}]

-----------------------------------------------------------------------------
(* I-CHING.py: cast_hexagram(query, include_nuclear, bundle) *)

\* lines 207-213: the timestamp, the seed and the identification hash
cast_hexagram_begin ==
  /\ prog = "I-CHING"
  /\ pc = "cast"
  /\ ~pbkdf2_fails
  /\ LET t == isoformat(clock)
         s == sha256(seed_material(query, t))
     IN  \E d \in pbkdf2(s, "hexagram-id") :
           /\ ts' = t
           /\ seed' = s
           /\ full_hash' = d
           /\ kdf' = kdf_after(s, "hexagram-id", PBKDF2_ITERS, DKLEN, d)
  /\ pc' = "lines"
  /\ UNCHANGED <<clock, entropy, prog, query, show_nuclear, lines, bits,
                 moving_idx, result, history, in_bits, meta, tarot,
                 cli, pool, fn>>

\* lines 218-225: one turn of the loop over the six positions
cast_hexagram_line ==
  /\ prog = "I-CHING"
  /\ pc = "lines"
  /\ Len(lines) < 6
  /\ LET i == Len(lines)
     IN  \E d \in pbkdf2(seed, line_salt(i)) :
           LET val == line_from_digest(d)
               b == yin_yang_bit(val)
           IN  /\ kdf' = kdf_after(seed, line_salt(i), PBKDF2_ITERS, DKLEN, d)
               /\ lines' = Append(lines, val)
               /\ bits' = Append(bits, b)
               /\ moving_idx' = IF val \in {LINE_OLD_YIN, LINE_OLD_YANG}
                                THEN Append(moving_idx, i) ELSE moving_idx
  /\ UNCHANGED <<clock, entropy, prog, query, show_nuclear, pc, ts, seed,
                 full_hash, result, history, in_bits, meta, tarot,
                 cli, pool, fn>>

\* lines 228-232: the bits with every moving position flipped
RECURSIVE flip_moving(_, _)
flip_moving(relating_bits, idx) ==
  IF idx = << >> THEN relating_bits
  ELSE flip_moving([relating_bits EXCEPT ![Head(idx) + 1] = flip_bit(@)], Tail(idx))

cast_hexagram_relating(primary_bits, idx) ==
  IF idx # << >> THEN Some(flip_moving(primary_bits, idx)) ELSE None

\* lines 238-241
cast_hexagram_nuclear(include_nuclear, primary_bits) ==
  IF include_nuclear THEN Some(build_meta(nuclear_from_bits(primary_bits))) ELSE None

\* lines 227-255: what cast_hexagram returns
CastResult(include_nuclear) ==
  LET primary_bits == bits
      relating_bits == cast_hexagram_relating(primary_bits, moving_idx)
      primary_meta == build_meta(primary_bits)
      relating_meta == IF relating_bits # None THEN Some(build_meta(relating_bits[1]))
                       ELSE None
      nuclear_meta == cast_hexagram_nuclear(include_nuclear, primary_bits)
  IN  [query |-> query,
       timestamp_utc |-> ts,
       seed_hex |-> hex(seed),
       full_hash8 |-> Slice(full_hash, 0, 4),
       lines |-> lines,
       primary_bits |-> primary_bits,
       moving_indices |-> moving_idx,
       relating_bits |-> relating_bits,
       primary_meta |-> primary_meta,
       relating_meta |-> relating_meta,
       nuclear_meta |-> nuclear_meta]

cast_hexagram_return ==
  /\ prog = "I-CHING"
  /\ pc = "lines"
  /\ Len(lines) = 6
  /\ result' = Some(CastResult(show_nuclear))
  /\ pc' = "done"
  /\ UNCHANGED <<clock, entropy, kdf, prog, query, show_nuclear, ts, seed,
                 full_hash, lines, bits, moving_idx, history, in_bits, meta, tarot,
                 cli, pool, fn>>

-----------------------------------------------------------------------------
(* I-CHING3.py: IChing.cast(query) *)

\* lines 1135-1141: the timestamp, the seed and the authentication hash
cast_begin ==
  /\ prog = "I-CHING3"
  /\ pc = "cast"
  /\ ~pbkdf2_fails
  /\ LET timestamp == isoformat(clock)
         s == sha256(seed_material(query, timestamp))
     IN  \E auth_hash \in secure_hash(s, "hexagram-auth") :
           /\ ts' = timestamp
           /\ seed' = s
           /\ full_hash' = auth_hash
           /\ kdf' = kdf_after(s, "hexagram-auth", PBKDF2_ITERATIONS,
                               DERIVED_KEY_LENGTH, auth_hash)
  /\ pc' = "lines"
  /\ UNCHANGED <<clock, entropy, prog, query, show_nuclear, lines, bits,
                 moving_idx, result, history, in_bits, meta, tarot,
                 cli, pool, fn>>

\* lines 1148-1158: one turn of the loop over the six positions
cast_line ==
  /\ prog = "I-CHING3"
  /\ pc = "lines"
  /\ Len(lines) < 6
  /\ LET position == Len(lines)
     IN  \E line_entropy \in secure_hash(seed, line_salt(position)) :
           LET line_value == derive_line_value(line_entropy)
               bit == line_to_yin_yang(line_value)
           IN  /\ kdf' = kdf_after(seed, line_salt(position), PBKDF2_ITERATIONS,
                                   DERIVED_KEY_LENGTH, line_entropy)
               /\ lines' = Append(lines, line_value)
               /\ bits' = Append(bits, bit)
               /\ moving_idx' = IF line_value \in {LINE_OLD_YIN, LINE_OLD_YANG}
                                THEN Append(moving_idx, position) ELSE moving_idx
  /\ UNCHANGED <<clock, entropy, prog, query, show_nuclear, pc, ts, seed,
                 full_hash, result, history, in_bits, meta, tarot,
                 cli, pool, fn>>

\* lines 1176-1178: the bits with every moving position flipped
RECURSIVE cast_flip(_, _)
cast_flip(relating_bits, moving_positions) ==
  IF moving_positions = << >> THEN relating_bits
  ELSE cast_flip([relating_bits EXCEPT ![Head(moving_positions) + 1] = 1 - @],
                 Tail(moving_positions))

\* cast_relating_bits without the test of moving_positions
cast_relating_bits_always(primary_bits, moving_positions) ==
  Some(cast_flip(primary_bits, moving_positions))

\* lines 1173-1178
cast_relating_bits(primary_bits, moving_positions) ==
  IF moving_positions # << >> THEN Some(cast_flip(primary_bits, moving_positions))
  ELSE None

\* cast_nuclear_bits with the upper trigram taken one line too high
cast_nuclear_bits_shifted(primary_bits) ==
  <<primary_bits[2], primary_bits[3], primary_bits[4],
    primary_bits[4], primary_bits[5], primary_bits[6]>>

\* line 1188
cast_nuclear_bits(primary_bits) ==
  <<primary_bits[2], primary_bits[3], primary_bits[4],
    primary_bits[3], primary_bits[4], primary_bits[5]>>

\* cast_nuclear nested under the test of moving_positions
cast_nuclear_if_moving(self_show_nuclear, primary_bits) ==
  IF self_show_nuclear /\ moving_idx # << >> THEN Some(cast_nuclear_bits(primary_bits)) ELSE None

\* lines 1185-1188
cast_nuclear(self_show_nuclear, primary_bits) ==
  IF self_show_nuclear THEN Some(cast_nuclear_bits(primary_bits)) ELSE None

\* lines 1166-1170: one entry for each moving position that has a line text
RECURSIVE cast_moving_line_texts(_, _)
cast_moving_line_texts(primary_info, moving_positions) ==
  IF moving_positions = << >> \/ primary_info.lines = 0 THEN << >>
  ELSE LET pos == Head(moving_positions)
           rest == cast_moving_line_texts(primary_info, Tail(moving_positions))
       IN  IF pos < primary_info.lines THEN <<"Line " \o str(pos + 1)>> \o rest ELSE rest

\* get_hexagram_info of the two trigrams of a pattern
pattern_info(bits6) ==
  get_hexagram_info(bits_to_trigram(Slice(bits6, 0, 3)), bits_to_trigram(Slice(bits6, 3, 6)))

\* lines 1160-1207: what IChing.cast returns
HexagramReading(self_show_nuclear) ==
  LET primary_info == pattern_info(bits)
      relating_bits == cast_relating_bits(bits, moving_idx)
      relating_info == IF moving_idx # << >> THEN Some(pattern_info(relating_bits[1]))
                       ELSE None
      nuclear_bits == cast_nuclear(self_show_nuclear, bits)
      nuclear_info == IF nuclear_bits # None THEN Some(pattern_info(nuclear_bits[1]))
                      ELSE None
  IN  [query |-> query,
       timestamp |-> ts,
       seed_hash |-> hex_prefix(hex(seed), 16),
       authentication |-> Slice(full_hash, 0, 4),
       primary_lines |-> lines,
       primary_bits |-> bits,
       primary_info |-> primary_info,
       moving_positions |-> moving_idx,
       moving_line_texts |-> cast_moving_line_texts(primary_info, moving_idx),
       relating_bits |-> relating_bits,
       relating_info |-> relating_info,
       nuclear_bits |-> nuclear_bits,
       nuclear_info |-> nuclear_info]

cast_return ==
  /\ prog = "I-CHING3"
  /\ pc = "lines"
  /\ Len(lines) = 6
  /\ result' = Some(HexagramReading(show_nuclear))
  /\ pc' = "done"
  /\ UNCHANGED <<clock, entropy, kdf, prog, query, show_nuclear, ts, seed,
                 full_hash, lines, bits, moving_idx, history, in_bits, meta, tarot,
                 cli, pool, fn>>

-----------------------------------------------------------------------------
(* The clock and the runs *)

Tick ==
  /\ clock < MaxClock
  /\ clock' = clock + 1
  /\ UNCHANGED <<entropy, kdf, prog, query, show_nuclear, pc, ts, seed,
                 full_hash, lines, bits, moving_idx, result, history, in_bits, meta, tarot,
                 cli, pool, fn>>

\* The clock advances before the run reads it.
TickBeforeCast == pc = "cast" /\ Tick

\* The state a run starts in (the run's locals are not yet assigned).
RunStart(p, q, n) ==
  /\ prog = p
  /\ query = q
  /\ show_nuclear = n
  /\ pc = "cast"
  /\ ts = ""
  /\ seed = << >>
  /\ full_hash = << >>
  /\ lines = << >>
  /\ bits = << >>
  /\ moving_idx = << >>
  /\ result = None

NoLookup == in_bits = << >> /\ meta = None

\* No command line, console or file is part of the run
NoCli ==
  /\ arg_query = None
  /\ arg_seed = None
  /\ arg_save = FALSE
  /\ arg_bundle = FALSE
  /\ typed = << >>
  /\ typed_spread = None
  /\ isatty = TRUE
  /\ save_fails = FALSE
  /\ bundle_fails = FALSE
  /\ shown = << >>
  /\ warned = << >>
  /\ exit_code = None

NoPool ==
  /\ reversals_enabled = FALSE
  /\ interactive_deck = << >>
  /\ available_hashes = << >>
  /\ choices = << >>
  /\ typed_lines = << >>

NoFn == in_block = << >> /\ line_out = None

NoTarot ==
  /\ deck = << >>
  /\ spread = 0
  /\ available_indices = << >>
  /\ drawn_cards = << >>
  /\ pbkdf2_fails = FALSE

Init ==
  /\ clock = 0
  /\ entropy = HexEntropy
  /\ kdf = << >>
  /\ \E p \in Programs, q \in OneQuery, n \in BOOLEAN : RunStart(p, q, n)
  /\ history = << >>
  /\ NoLookup
  /\ NoTarot
  /\ NoCli
  /\ NoPool
  /\ NoFn

Next ==
  \/ TickBeforeCast
  \/ cast_hexagram_begin
  \/ cast_hexagram_line
  \/ cast_hexagram_return
  \/ cast_begin
  \/ cast_line
  \/ cast_return

\* One run of a hexagram program.
Spec == Init /\ [][Next]_vars

-----------------------------------------------------------------------------
(* The same question asked twice within one second *)

\* A hexagram program is run again on the same question, the clock still
\* showing the same second: the first run's result is kept for comparison.
Rerun(p, n) ==
  /\ pc = "done"
  /\ history = << >>
  /\ history' = <<[prog |-> prog, show_nuclear |-> show_nuclear, reading |-> result[1]]>>
  /\ prog' = p
  /\ show_nuclear' = n
  /\ pc' = "cast"
  /\ ts' = ""
  /\ seed' = << >>
  /\ full_hash' = << >>
  /\ lines' = << >>
  /\ bits' = << >>
  /\ moving_idx' = << >>
  /\ result' = None
  /\ UNCHANGED <<clock, entropy, kdf, query, in_bits, meta, tarot,
                 cli, pool, fn>>

InitRerun ==
  /\ clock \in 0..MaxClock
  /\ entropy = LeanEntropy
  /\ kdf = << >>
  /\ \E p \in Programs, q \in Queries, n \in BOOLEAN : RunStart(p, q, n)
  /\ history = << >>
  /\ NoLookup
  /\ NoTarot
  /\ NoCli
  /\ NoPool
  /\ NoFn

NextRerun ==
  \/ cast_hexagram_begin
  \/ cast_hexagram_line
  \/ cast_hexagram_return
  \/ cast_begin
  \/ cast_line
  \/ cast_return
  \/ \E p \in Programs, n \in BOOLEAN : Rerun(p, n)

\* Two runs of the hexagram programs on the same question and second.
SpecRerun == InitRerun /\ [][NextRerun]_vars

-----------------------------------------------------------------------------
(* Resolving a pattern to its record, for each of the 64 patterns *)

\* I-CHING.py: build_meta(bits6, bundle)
resolve_build_meta ==
  /\ prog = "I-CHING"
  /\ pc = "lookup"
  /\ meta' = Some(build_meta(in_bits))
  /\ pc' = "resolved"
  /\ UNCHANGED <<clock, entropy, kdf, prog, query, show_nuclear, ts, seed,
                 full_hash, lines, bits, moving_idx, result, history, in_bits, tarot,
                 cli, pool, fn>>

\* I-CHING3.py: get_hexagram_info(lower, upper) of the pattern's trigrams
resolve_hexagram_info ==
  /\ prog = "I-CHING3"
  /\ pc = "lookup"
  /\ meta' = Some(pattern_info(in_bits))
  /\ pc' = "resolved"
  /\ UNCHANGED <<clock, entropy, kdf, prog, query, show_nuclear, ts, seed,
                 full_hash, lines, bits, moving_idx, result, history, in_bits, tarot,
                 cli, pool, fn>>

InitLookup ==
  /\ clock = 0
  /\ entropy = {}
  /\ kdf = << >>
  /\ prog \in Programs
  /\ query = ""
  /\ show_nuclear = TRUE
  /\ pc = "lookup"
  /\ ts = ""
  /\ seed = << >>
  /\ full_hash = << >>
  /\ lines = << >>
  /\ bits = << >>
  /\ moving_idx = << >>
  /\ result = None
  /\ history = << >>
  /\ in_bits \in Patterns
  /\ meta = None
  /\ NoTarot
  /\ NoCli
  /\ NoPool
  /\ NoFn

NextLookup ==
  \/ resolve_build_meta
  \/ resolve_hexagram_info

SpecLookup == InitLookup /\ [][NextLookup]_vars

-----------------------------------------------------------------------------
(* tarot_reader.py: the deck *)

MAJOR_ARCANA ==
  <<"The Fool", "The Magician", "The High Priestess", "The Empress", "The Emperor",
    "The Hierophant", "The Lovers", "The Chariot", "Strength", "The Hermit",
    "Wheel of Fortune", "Justice", "The Hanged Man", "Death", "Temperance",
    "The Devil", "The Tower", "The Star", "The Moon", "The Sun",
    "Judgement", "The World">>

SUITS == <<"Wands", "Cups", "Swords", "Pentacles">>

\* ["Ace"] + [str(n) for n in range(2, 11)] + ["Page", "Knight", "Queen", "King"]
RANKS ==
  <<"Ace">> \o [n \in 1..9 |-> str(n + 1)] \o <<"Page", "Knight", "Queen", "King">>

TarotCard(name, is_major, deck_position) ==
  [name |-> name, is_major |-> is_major, deck_position |-> deck_position]

\* TarotDeck._build_deck(): the major arcana in order, then for each suit each
\* rank, every card with the position it is appended at.
build_deck ==
  [i \in 1..Len(MAJOR_ARCANA) |-> TarotCard(MAJOR_ARCANA[i], TRUE, i - 1)]
    \o [j \in 1..(Len(SUITS) * Len(RANKS)) |->
          TarotCard(RANKS[((j - 1) % Len(RANKS)) + 1] \o " of "
                      \o SUITS[((j - 1) \div Len(RANKS)) + 1],
                    FALSE, Len(MAJOR_ARCANA) + j - 1)]

\* SpreadType: the card counts of the three spreads
SpreadType == {1, 3, 10}

PROTECTION_ITERATIONS == 888888
HASH_LENGTH == 32

\* 256^k % n
RECURSIVE pow256_mod(_, _)
pow256_mod(k, n) ==
  IF k = 0 THEN 1 % n
  ELSE IF k % 2 = 0 THEN (pow256_mod(k \div 2, n) * pow256_mod(k \div 2, n)) % n
  ELSE (256 * pow256_mod(k - 1, n)) % n

\* The big-endian integer of the bytes b[lo..hi], modulo n: that of the left
\* half shifted over the right half, plus that of the right half.
RECURSIVE from_bytes_mod_span(_, _, _, _)
from_bytes_mod_span(b, lo, hi, n) ==
  IF lo > hi THEN 0
  ELSE IF lo = hi THEN b[lo] % n
  ELSE LET mid == (lo + hi) \div 2
       IN (from_bytes_mod_span(b, lo, mid, n) * pow256_mod(hi - mid, n)
             + from_bytes_mod_span(b, mid + 1, hi, n)) % n

\* The bytes read with the last byte as the most significant
from_bytes_mod_little(b, n) ==
  from_bytes_mod_span([i \in 1..Len(b) |-> b[Len(b) + 1 - i]], 1, Len(b), n)

\* int.from_bytes(b, "big") % n (the integer itself is wider than the
\* integers of the model checker, so it is taken modulo n part by part).
from_bytes_mod(b, n) == from_bytes_mod_span(b, 1, Len(b), n)

\* A pool that is what the call before left of it
range_left(n) == IF available_indices # << >> THEN available_indices ELSE [i \in 1..n |-> i - 1]

\* list(range(n))
range(n) == [i \in 1..n |-> i - 1]

\* A pool that keeps the entry it hands out
pop_rest_kept(list, index) == list

\* The list after list.pop(index)
pop_rest(list, index) == Slice(list, 0, index) \o Slice(list, index + 1, Len(list))

\* The fallback of derive_protected_bytes: sha256(result + salt) iterated
\* from base_bytes, cut to dklen bytes.
fallback_key(base_bytes, salt_bytes, iterations) ==
  <<"sha256*", base_bytes, salt_bytes, iterations>>

\* A derivation that takes the fallback for the salt card-1 alone
derive_protected_key_mixed(base_bytes, salt_bytes) ==
  IF pbkdf2_fails \/ salt_bytes = "card-1"
  THEN <<"sha256*", base_bytes, salt_bytes, PROTECTION_ITERATIONS>>
  ELSE <<"pbkdf2_hmac", base_bytes, salt_bytes, PROTECTION_ITERATIONS, HASH_LENGTH>>

\* ProtectiveHasher.derive_protected_bytes(base_bytes, salt_bytes): the input
\* derived and the blocks it may return
derive_protected_key(base_bytes, salt_bytes) ==
  IF pbkdf2_fails
  THEN fallback_key(base_bytes, salt_bytes, PROTECTION_ITERATIONS)
  ELSE <<"pbkdf2_hmac", base_bytes, salt_bytes, PROTECTION_ITERATIONS, HASH_LENGTH>>

derive_protected_bytes(base_bytes, salt_bytes) ==
  IF pbkdf2_fails
  THEN {Slice(d, 0, HASH_LENGTH) :
          d \in derived(fallback_key(base_bytes, salt_bytes, PROTECTION_ITERATIONS))}
  ELSE pbkdf2_hmac(base_bytes, salt_bytes, PROTECTION_ITERATIONS, HASH_LENGTH)

\* A seed made of the query alone
create_seed_untimed(q, timestamp) == sha256(q)

\* ProtectiveHasher.create_seed(query, timestamp): seed_bytes
create_seed(q, timestamp) == sha256(seed_material(q, timestamp))

\* f"card-{card_position}"
card_salt(card_position) == "card-" \o str(card_position)

DrawnCard(card, is_reversed, hash_digest) ==
  [card |-> card, is_reversed |-> is_reversed, hash_digest |-> hash_digest]

\* Blocks for a draw: the first eight bytes give the selection value, the last
\* byte the orientation.  5 reversed, 2^56 upright.
TarotEntropy ==
  { Block(HASH_LENGTH, <<0, 0, 0, 0, 0, 0, 0, 5>>, 0, 1),
    Block(HASH_LENGTH, <<1, 0, 0, 0, 0, 0, 0, 0>>, 17, 2) }

-----------------------------------------------------------------------------
(* tarot_reader.py: TarotReader.draw_cards(query, spread_type) *)

\* lines 183-188: the timestamp, the seed, the pool of all deck positions
draw_cards_begin ==
  /\ prog = "tarot_reader"
  /\ pc = "draw"
  /\ ts' = isoformat(clock)
  /\ seed' = create_seed(query, ts')
  /\ available_indices' = range(Len(deck))
  /\ drawn_cards' = << >>
  /\ pc' = "cards"
  /\ UNCHANGED <<clock, entropy, kdf, show_nuclear, prog, query, full_hash, lines,
                 bits, moving_idx, result, history, in_bits, meta, deck, spread,
                 pbkdf2_fails, cli, pool, fn>>

\* lines 190-211: one turn of the loop over the positions of the spread
draw_cards_card ==
  /\ prog = "tarot_reader"
  /\ pc = "cards"
  /\ Len(drawn_cards) < spread
  /\ LET card_position == Len(drawn_cards)
         salt == card_salt(card_position)
     IN \E protected_digest \in derive_protected_bytes(seed, salt) :
          LET selected_index ==
                from_bytes_mod(Slice(protected_digest, 0, 8), Len(available_indices))
              deck_position == available_indices[selected_index + 1]
              is_reversed == (protected_digest[Len(protected_digest)] % 2) = 1
          IN /\ kdf' = derived_after(derive_protected_key(seed, salt), protected_digest)
             /\ available_indices' = pop_rest(available_indices, selected_index)
             /\ drawn_cards' =
                  Append(drawn_cards,
                         DrawnCard(deck[deck_position + 1], is_reversed,
                                   hex(protected_digest)))
  /\ UNCHANGED <<clock, entropy, show_nuclear, prog, query, pc, ts, seed, full_hash,
                 lines, bits, moving_idx, result, history, in_bits, meta, deck,
                 spread, pbkdf2_fails, cli, pool, fn>>

ReadingMetadata(timestamp, seed_hash, q) ==
  [timestamp |-> timestamp, seed_hash |-> seed_hash, query |-> q]

\* lines 213-219: the metadata, and the return of (drawn_cards, metadata)
draw_cards_return ==
  /\ prog = "tarot_reader"
  /\ pc = "cards"
  /\ Len(drawn_cards) >= spread
  /\ result' = Some([drawn_cards |-> drawn_cards,
                     metadata |-> ReadingMetadata(
                       ts, <<hex_prefix(hex(seed), 16), "...">>, query)])
  /\ pc' = "done"
  /\ UNCHANGED <<clock, entropy, kdf, show_nuclear, prog, query, ts, seed,
                 full_hash, lines, bits, moving_idx, history, in_bits, meta, tarot,
                 cli, pool, fn>>

TickBeforeDraw == pc = "draw" /\ Tick

\* The state a tarot run starts in
TarotStart(p, q, n) ==
  /\ prog = p
  /\ query = q
  /\ spread = n
  /\ show_nuclear = TRUE
  /\ pc = "draw"
  /\ ts = ""
  /\ seed = << >>
  /\ full_hash = << >>
  /\ lines = << >>
  /\ bits = << >>
  /\ moving_idx = << >>
  /\ result = None
  /\ history = << >>
  /\ available_indices = << >>
  /\ drawn_cards = << >>
  /\ NoLookup
  /\ NoCli
  /\ NoPool
  /\ NoFn

InitTarot ==
  /\ clock = 0
  /\ entropy = TarotEntropy
  /\ kdf = << >>
  /\ deck = build_deck
  /\ pbkdf2_fails \in BOOLEAN
  /\ \E q \in Queries, n \in SpreadType : TarotStart("tarot_reader", q, n)

\* The loop of draw_cards run for as many positions as the deck has cards,
\* every derivation returning the same block
InitWholeDeck ==
  /\ clock = 0
  /\ \E d \in TarotEntropy : entropy = {d}
  /\ kdf = << >>
  /\ deck = build_deck
  /\ pbkdf2_fails \in BOOLEAN
  /\ \E q \in OneQuery : TarotStart("tarot_reader", q, Len(build_deck))

NextTarot ==
  \/ TickBeforeDraw
  \/ draw_cards_begin
  \/ draw_cards_card
  \/ draw_cards_return

\* One run of TarotReader.draw_cards for a spread
SpecTarot == InitTarot /\ [][NextTarot]_vars

\* The same, or the loop run through the whole deck
SpecTarotDeck == (InitTarot \/ InitWholeDeck) /\ [][NextTarot]_vars

-----------------------------------------------------------------------------
(* RepeatTarot.py *)

DECK_SIZE == 78
THINK_DEPTH == 888888

cards ==
  <<"The Fool", "The Magician", "The High Priestess", "The Empress", "The Emperor",
    "The Hierophant", "The Lovers", "The Chariot", "Strength", "The Hermit",
    "Wheel of Fortune", "Justice", "The Hanged Man", "Death", "Temperance",
    "The Devil", "The Tower", "The Star", "The Moon", "The Sun", "Judgment",
    "The World",
    "Ace of Wands", "Two of Wands", "Three of Wands", "Four of Wands",
    "Five of Wands", "Six of Wands", "Seven of Wands", "Eight of Wands",
    "Nine of Wands", "Ten of Wands", "Page of Wands", "Knight of Wands",
    "Queen of Wands", "King of Wands",
    "Ace of Cups", "Two of Cups", "Three of Cups", "Four of Cups",
    "Five of Cups", "Six of Cups", "Seven of Cups", "Eight of Cups",
    "Nine of Cups", "Ten of Cups", "Page of Cups", "Knight of Cups",
    "Queen of Cups", "King of Cups",
    "Ace of Swords", "Two of Swords", "Three of Swords", "Four of Swords",
    "Five of Swords", "Six of Swords", "Seven of Swords", "Eight of Swords",
    "Nine of Swords", "Ten of Swords", "Page of Swords", "Knight of Swords",
    "Queen of Swords", "King of Swords",
    "Ace of Pentacles", "Two of Pentacles", "Three of Pentacles",
    "Four of Pentacles", "Five of Pentacles", "Six of Pentacles",
    "Seven of Pentacles", "Eight of Pentacles", "Nine of Pentacles",
    "Ten of Pentacles", "Page of Pentacles", "Knight of Pentacles",
    "Queen of Pentacles", "King of Pentacles">>

\* int(time.time()) at clock second c (the epoch second of isoformat(0), plus c)
time_time(c) == 1704067200 + c

\* The input of the iterated sha512 of hash_question(question, salt, times)
hash_question_key(question, salt, times) == <<"sha512*", question \o salt, times>>

\* hash_question(question, salt): the 64-byte digests it may end on
hash_question(question, salt) == derived(hash_question_key(question, salt, THINK_DEPTH))

\* f"{question}-card{i}-time{timestamp}"
repeat_salt(question, i, timestamp) ==
  question \o "-card" \o str(i) \o "-time" \o str(timestamp)

\* A loop that takes one turn more
in_range_through(i, count) == i <= count

\* range(count) of the loop of draw_cards: whether turn i is one of it
in_range(i, count) == i < count

\* 64-byte digests: the integers 5 and 256^63
RepeatEntropy ==
  { Block(64, << >>, 0, 5), Block(64, <<1>>, 0, 0) }

\* lines 46-47
repeat_draw_begin ==
  /\ prog = "RepeatTarot"
  /\ pc = "draw"
  /\ drawn_cards' = << >>
  /\ ts' = time_time(clock)
  /\ pc' = "cards"
  /\ UNCHANGED <<clock, entropy, kdf, show_nuclear, prog, query, seed, full_hash,
                 lines, bits, moving_idx, result, history, in_bits, meta, deck,
                 spread, available_indices, pbkdf2_fails, cli, pool, fn>>

\* lines 49-52: one turn of the loop
repeat_draw_card ==
  /\ prog = "RepeatTarot"
  /\ pc = "cards"
  /\ in_range(Len(drawn_cards), spread)
  /\ LET i == Len(drawn_cards)
         salt == repeat_salt(query, i, ts)
     IN \E h \in hash_question(query, salt) :
          LET index == from_bytes_mod(h, DECK_SIZE)
          IN /\ kdf' = derived_after(hash_question_key(query, salt, THINK_DEPTH), h)
             /\ drawn_cards' = Append(drawn_cards, cards[index + 1])
  /\ UNCHANGED <<clock, entropy, show_nuclear, prog, query, pc, ts, seed, full_hash,
                 lines, bits, moving_idx, result, history, in_bits, meta, deck,
                 spread, available_indices, pbkdf2_fails, cli, pool, fn>>

\* line 53
repeat_draw_return ==
  /\ prog = "RepeatTarot"
  /\ pc = "cards"
  /\ ~in_range(Len(drawn_cards), spread)
  /\ result' = Some(drawn_cards)
  /\ pc' = "done"
  /\ UNCHANGED <<clock, entropy, kdf, show_nuclear, prog, query, ts, seed,
                 full_hash, lines, bits, moving_idx, history, in_bits, meta, tarot,
                 cli, pool, fn>>

InitRepeat ==
  /\ clock = 0
  /\ entropy = RepeatEntropy
  /\ kdf = << >>
  /\ deck = << >>
  /\ pbkdf2_fails = FALSE
  /\ \E q \in Queries, n \in SpreadType : TarotStart("RepeatTarot", q, n)

NextRepeat ==
  \/ TickBeforeDraw
  \/ repeat_draw_begin
  \/ repeat_draw_card
  \/ repeat_draw_return

\* One run of RepeatTarot's draw_cards for a spread
SpecRepeat == InitRepeat /\ [][NextRepeat]_vars

-----------------------------------------------------------------------------
(* Text read from the command line and the console *)

\* A text is the sequence of its characters.  The whitespace of the texts
\* drawn here is the space.
isspace(c) == c = " "

\* str.lstrip(), str.rstrip(), str.strip()
RECURSIVE lstrip(_)
lstrip(t) == IF t # << >> /\ isspace(Head(t)) THEN lstrip(Tail(t)) ELSE t

RECURSIVE rstrip(_)
rstrip(t) ==
  IF t # << >> /\ isspace(t[Len(t)]) THEN rstrip(SubSeq(t, 1, Len(t) - 1)) ELSE t

strip(t) == lstrip(rstrip(t))

\* The string of a text
RECURSIVE join(_)
join(t) == IF t = << >> THEN "" ELSE Head(t) \o join(Tail(t))

\* The truth value Python gives an Optional[str]: given and not empty
truthy(opt) == opt # None /\ opt[1] # << >>

\* The values of -q/--query, and the lines typed at the question prompt
ArgQueries == {None, Some(<< >>), Some(<<" ">>), Some(<<"a">>)}
TypedLines == {<< >>, <<" ", " ">>, <<"a", " ">>}

-----------------------------------------------------------------------------
(* I-CHING.py: main() *)

\* line 335: args.query or input("Ask your question: ").strip()
main_query == IF truthy(arg_query) THEN arg_query[1] ELSE strip(typed)

\* lines 339-346: a bundle that fails to load is warned about and left None
main_bundle_warned(w) ==
  IF arg_bundle /\ bundle_fails THEN Append(w, "Warning: failed to load bundle") ELSE w

\* lines 335-354, up to the call of cast_hexagram
main_begin ==
  /\ prog = "I-CHING"
  /\ pc = "main"
  /\ IF main_query = << >>
     THEN /\ warned' = Append(warned, "Error: query required.")
          /\ exit_code' = Some(1)
          /\ pc' = "exit"
          /\ UNCHANGED query
     ELSE /\ warned' = main_bundle_warned(warned)
          /\ query' = join(main_query)
          /\ pc' = "cast"
          /\ UNCHANGED exit_code
  /\ UNCHANGED <<clock, entropy, kdf, prog, show_nuclear, ts, seed, full_hash, lines,
                 bits, moving_idx, result, history, in_bits, meta, tarot,
                 args, shown, pool, fn>>

\* lines 207-212 on a build whose pbkdf2_hmac raises: nothing in cast_hexagram
\* or main handles the exception, the process ends with a traceback
cast_hexagram_raise ==
  /\ prog = "I-CHING"
  /\ pc = "cast"
  /\ pbkdf2_fails
  /\ ts' = isoformat(clock)
  /\ seed' = sha256(seed_material(query, ts'))
  /\ warned' = Append(warned, "Traceback")
  /\ exit_code' = Some(1)
  /\ pc' = "exit"
  /\ UNCHANGED <<clock, entropy, kdf, prog, query, show_nuclear, full_hash, lines,
                 bits, moving_idx, result, history, in_bits, meta, tarot,
                 args, shown, pool, fn>>

\* print_result(res, ...): what is displayed of the reading
print_result(res, show) ==
  [head |-> <<res.full_hash8, res.timestamp_utc, hex_prefix(res.seed_hex, 16)>>,
   primary |-> res.primary_meta,
   primary_bits |-> res.primary_bits,
   moving |-> res.moving_indices,
   relating |-> IF res.moving_indices # << >> /\ res.relating_meta # None
                THEN Some([meta |-> res.relating_meta[1], bits |-> res.relating_bits[1]])
                ELSE None,
   nuclear |-> IF show /\ res.nuclear_meta # None THEN res.nuclear_meta ELSE None]

\* An autosave outside any try: a failure to write ends the process
autosave_unguarded(w) ==
  IF arg_save /\ save_fails
  THEN [warned |-> Append(w, "Traceback"), exit_code |-> 1]
  ELSE [warned |-> w, exit_code |-> 0]

\* lines 366-376: a failure to write the autosave file is warned about
autosave(w) ==
  IF arg_save /\ save_fails
  THEN [warned |-> Append(w, "Warning: failed to autosave"), exit_code |-> 0]
  ELSE [warned |-> w, exit_code |-> 0]

\* lines 356-376: the reading is displayed, then saved if asked
main_end ==
  /\ prog = "I-CHING"
  /\ pc = "done"
  /\ shown' = Append(shown, print_result(result[1], show_nuclear))
  /\ warned' = autosave(warned).warned
  /\ exit_code' = Some(autosave(warned).exit_code)
  /\ pc' = "exit"
  /\ UNCHANGED <<clock, entropy, kdf, prog, query, show_nuclear, ts, seed, full_hash,
                 lines, bits, moving_idx, result, history, in_bits, meta, tarot,
                 args, pool, fn>>

-----------------------------------------------------------------------------
(* I-CHING3.py: main() *)

\* lines 1335-1341: args.query if given and not empty, else the line typed
main3_query == IF truthy(arg_query) THEN arg_query[1] ELSE typed

\* lines 1335-1356, up to the call of IChing.cast
main3_begin ==
  /\ prog = "I-CHING3"
  /\ pc = "main"
  /\ IF strip(main3_query) = << >>
     THEN /\ warned' = Append(warned, "Error: A question is required for divination.")
          /\ exit_code' = Some(1)
          /\ pc' = "exit"
          /\ UNCHANGED query
     ELSE /\ query' = join(main3_query)
          /\ pc' = "cast"
          /\ UNCHANGED <<warned, exit_code>>
  /\ UNCHANGED <<clock, entropy, kdf, prog, show_nuclear, ts, seed, full_hash, lines,
                 bits, moving_idx, result, history, in_bits, meta, tarot,
                 args, shown, pool, fn>>

\* lines 1135-1140 on a build whose pbkdf2_hmac raises: the handler of
\* lines 1388-1390 logs the exception and exits with status 1
cast_raise ==
  /\ prog = "I-CHING3"
  /\ pc = "cast"
  /\ pbkdf2_fails
  /\ ts' = isoformat(clock)
  /\ seed' = sha256(seed_material(query, ts'))
  /\ warned' = Append(warned, "Unexpected error")
  /\ exit_code' = Some(1)
  /\ pc' = "exit"
  /\ UNCHANGED <<clock, entropy, kdf, prog, query, show_nuclear, full_hash, lines,
                 bits, moving_idx, result, history, in_bits, meta, tarot,
                 args, shown, pool, fn>>

\* display_reading(reading): what is displayed of the reading
display_reading(reading) ==
  [head |-> <<reading.query, reading.timestamp, reading.authentication>>,
   primary |-> reading.primary_info,
   primary_bits |-> reading.primary_bits,
   moving |-> IF reading.moving_positions # << >>
              THEN Some([positions |-> reading.moving_positions,
                         texts |-> reading.moving_line_texts])
              ELSE None,
   relating |-> IF reading.relating_info # None
                THEN Some([info |-> reading.relating_info[1],
                           bits |-> reading.relating_bits[1]])
                ELSE None,
   nuclear |-> reading.nuclear_info]

\* lines 1362-1382: a failure to save is logged
save_reading(w) ==
  IF arg_save /\ save_fails
  THEN [warned |-> Append(w, "Failed to save reading"), exit_code |-> 0]
  ELSE [warned |-> w, exit_code |-> 0]

\* lines 1358-1382: the reading is displayed, then saved if asked
main3_end ==
  /\ prog = "I-CHING3"
  /\ pc = "done"
  /\ shown' = Append(shown, display_reading(result[1]))
  /\ warned' = save_reading(warned).warned
  /\ exit_code' = Some(save_reading(warned).exit_code)
  /\ pc' = "exit"
  /\ UNCHANGED <<clock, entropy, kdf, prog, query, show_nuclear, ts, seed, full_hash,
                 lines, bits, moving_idx, result, history, in_bits, meta, tarot,
                 args, pool, fn>>

\* The state main() of a hexagram program starts in
InitMain ==
  /\ clock = 0
  /\ entropy = LeanEntropy
  /\ kdf = << >>
  /\ prog \in Programs
  /\ show_nuclear \in BOOLEAN
  /\ pc = "main"
  /\ query = ""
  /\ ts = ""
  /\ seed = << >>
  /\ full_hash = << >>
  /\ lines = << >>
  /\ bits = << >>
  /\ moving_idx = << >>
  /\ result = None
  /\ history = << >>
  /\ NoLookup
  /\ deck = << >>
  /\ spread = 0
  /\ available_indices = << >>
  /\ drawn_cards = << >>
  /\ pbkdf2_fails \in BOOLEAN
  /\ arg_query \in ArgQueries
  /\ typed \in (IF truthy(arg_query) THEN {<< >>} ELSE TypedLines)
  /\ arg_seed = None
  /\ arg_save \in BOOLEAN
  /\ save_fails \in (IF arg_save THEN BOOLEAN ELSE {FALSE})
  /\ arg_bundle \in (IF prog = "I-CHING" THEN BOOLEAN ELSE {FALSE})
  /\ bundle_fails \in (IF arg_bundle THEN BOOLEAN ELSE {FALSE})
  /\ typed_spread = None
  /\ isatty = TRUE
  /\ shown = << >>
  /\ warned = << >>
  /\ exit_code = None
  /\ NoPool
  /\ NoFn

NextMain ==
  \/ main_begin
  \/ cast_hexagram_raise
  \/ cast_hexagram_begin
  \/ cast_hexagram_line
  \/ cast_hexagram_return
  \/ main_end
  \/ main3_begin
  \/ cast_raise
  \/ cast_begin
  \/ cast_line
  \/ cast_return
  \/ main3_end

\* One run of a hexagram program from its command line to its exit
SpecMain == InitMain /\ [][NextMain]_vars

-----------------------------------------------------------------------------
(* tarot_reader.py: TarotApp and main() *)

\* SpreadPositions
SINGLE_CARD == <<"Message">>
THREE_CARD == <<"Past", "Present", "Future">>
CELTIC_CROSS ==
  <<"Present (Significator)", "Challenge (Crossing)", "Subconscious (Below)",
    "Recent Past (Behind)", "Conscious (Above)", "Near Future (Before You)",
    "Self", "Environment", "Hopes & Fears", "Outcome">>

\* SpreadPositions.get_positions(spread_type)
get_positions(spread_type) ==
  IF spread_type = 1 THEN SINGLE_CARD
  ELSE IF spread_type = 3 THEN THREE_CARD
  ELSE CELTIC_CROSS

\* zip(a, b) of two lists
zip(a, b) ==
  [i \in 1..(IF Len(a) < Len(b) THEN Len(a) ELSE Len(b)) |-> <<a[i], b[i]>>]

\* A spread_map that takes every decimal numeral for its number
spread_map_any(spread_choice) ==
  IF strip(spread_choice) = <<"1">> THEN Some(1)
  ELSE IF strip(spread_choice) \in {<<"3">>, <<"0", "3">>} THEN Some(3)
  ELSE IF strip(spread_choice) = <<"1", "0">> THEN Some(10)
  ELSE IF strip(spread_choice) = <<"7">> THEN Some(7)
  ELSE None

\* perform_reading lines 299-303: spread_map[spread_choice.strip()], None where
\* the KeyError is raised
spread_map(spread_choice) ==
  IF strip(spread_choice) = <<"1">> THEN Some(1)
  ELSE IF strip(spread_choice) = <<"3">> THEN Some(3)
  ELSE IF strip(spread_choice) = <<"1", "0">> THEN Some(10)
  ELSE None

\* The run ends with the message on stderr and the status 1 (main, lines
\* 356-358), nothing else of the run's state changing.
exit_with_error(message) ==
  /\ warned' = Append(warned, message)
  /\ exit_code' = Some(1)
  /\ pc' = "exit"
  /\ UNCHANGED <<query, spread>>

\* perform_reading(query, spread_choice) up to the call of draw_cards
perform_reading(q, spread_choice) ==
  IF spread_map(spread_choice) = None
  THEN exit_with_error("Error: Spread must be 1, 3, or 10.")
  ELSE /\ query' = join(q)
       /\ spread' = spread_map(spread_choice)[1]
       /\ pc' = "draw"
       /\ UNCHANGED <<warned, exit_code>>

\* run_interactive, lines 314-330
run_interactive ==
  /\ prog = "tarot_reader"
  /\ pc = "main"
  /\ isatty
  /\ IF strip(typed) = << >>
     THEN exit_with_error("Error: A question is required for the reading.")
     ELSE perform_reading(strip(typed), strip(typed_spread[1]))
  /\ UNCHANGED <<clock, entropy, kdf, prog, show_nuclear, ts, seed, full_hash, lines,
                 bits, moving_idx, result, history, in_bits, meta, deck,
                 available_indices, drawn_cards, pbkdf2_fails, args, shown, pool, fn>>

\* run_piped, lines 332-343
run_piped ==
  /\ prog = "tarot_reader"
  /\ pc = "main"
  /\ ~isatty
  /\ IF typed_spread = None
     THEN exit_with_error("Error: Usage")
     ELSE IF strip(typed) = << >>
     THEN exit_with_error("Error: A question is required for the reading.")
     ELSE perform_reading(strip(typed), typed_spread[1])
  /\ UNCHANGED <<clock, entropy, kdf, prog, show_nuclear, ts, seed, full_hash, lines,
                 bits, moving_idx, result, history, in_bits, meta, deck,
                 available_indices, drawn_cards, pbkdf2_fails, args, shown, pool, fn>>

\* ReadingDisplay.print_rich / print_plain: the header and one row a card
print_reading(cards_drawn, metadata, spread_type) ==
  [title |-> spread_type,
   subtitle |-> <<metadata.query, metadata.timestamp, metadata.seed_hash>>,
   rows |-> [i \in DOMAIN zip(cards_drawn, get_positions(spread_type)) |->
               [position |-> get_positions(spread_type)[i],
                card |-> cards_drawn[i].card.name,
                orientation |-> IF cards_drawn[i].is_reversed THEN "Reversed"
                                ELSE "Upright"]]]

\* perform_reading lines 308-312, and the return of main
perform_reading_end ==
  /\ prog = "tarot_reader"
  /\ pc = "done"
  /\ shown' = Append(shown, print_reading(result[1].drawn_cards, result[1].metadata,
                                          spread))
  /\ exit_code' = Some(0)
  /\ pc' = "exit"
  /\ UNCHANGED <<clock, entropy, kdf, prog, query, show_nuclear, ts, seed, full_hash,
                 lines, bits, moving_idx, result, history, in_bits, meta, tarot,
                 args, warned, pool, fn>>

-----------------------------------------------------------------------------
(* RepeatTarot.py: main() *)

isdigit(c) == c \in {Digit[i] : i \in DOMAIN Digit}

digit_value(c) == (CHOOSE i \in DOMAIN Digit : Digit[i] = c) - 1

\* int(text) of a text of decimal digits; None where it raises ValueError
RECURSIVE int_digits(_)
int_digits(t) ==
  IF t = << >> THEN 0 ELSE int_digits(SubSeq(t, 1, Len(t) - 1)) * 10 + digit_value(t[Len(t)])

int(t) ==
  IF t # << >> /\ \A i \in DOMAIN t : isdigit(t[i]) THEN Some(int_digits(t)) ELSE None

\* lines 142-155: the spread of the typed choice
main_spread(spread_line) ==
  LET spread_choice == strip(spread_line)
      parsed == IF spread_choice = << >> THEN 1
                ELSE IF int(spread_choice) = None THEN 1
                ELSE int(spread_choice)[1]
  IN  IF parsed \in {1, 3, 10} THEN parsed ELSE 1

\* lines 133-155, up to the call of draw_cards: the question is the line as
\* typed, whatever it is
repeat_main_begin ==
  /\ prog = "RepeatTarot"
  /\ pc = "main"
  /\ query' = join(typed)
  /\ spread' = main_spread(typed_spread[1])
  /\ pc' = "draw"
  /\ UNCHANGED <<warned, exit_code>>
  /\ UNCHANGED <<clock, entropy, kdf, prog, show_nuclear, ts, seed, full_hash, lines,
                 bits, moving_idx, result, history, in_bits, meta, deck,
                 available_indices, drawn_cards, pbkdf2_fails, args, shown, pool, fn>>

celtic_positions ==
  <<"1. Present", "2. Challenge", "3. Past Influences", "4. Future Possibilities",
    "5. Above (Conscious Focus)", "6. Below (Subconscious Influence)",
    "7. Advice", "8. External Influences", "9. Hopes and Fears", "10. Outcome">>

\* lines 157-169: one row a card
repeat_rows(cards_drawn, n) ==
  IF n = 10
  THEN [i \in DOMAIN zip(celtic_positions, cards_drawn) |->
          <<celtic_positions[i], cards_drawn[i]>>]
  ELSE [i \in DOMAIN cards_drawn |-> <<str(i) \o ".", cards_drawn[i]>>]

\* lines 157-172
repeat_main_end ==
  /\ prog = "RepeatTarot"
  /\ pc = "done"
  /\ shown' = Append(shown, repeat_rows(result[1], spread))
  /\ exit_code' = Some(0)
  /\ pc' = "exit"
  /\ UNCHANGED <<clock, entropy, kdf, prog, query, show_nuclear, ts, seed, full_hash,
                 lines, bits, moving_idx, result, history, in_bits, meta, tarot,
                 args, warned, pool, fn>>

-----------------------------------------------------------------------------
(* The tarot programs run from their prompts *)

\* The lines typed at the spread prompt (or given as argv[1])
SpreadLines ==
  {<<"1">>, <<"3">>, <<" ", "3">>, <<"1", "0">>, << >>, <<"7">>, <<"0", "3">>, <<"x">>}

\* The state main() of a tarot program starts in
TarotMainStart(p) ==
  /\ prog = p
  /\ clock = 0
  /\ show_nuclear = TRUE
  /\ pc = "main"
  /\ query = ""
  /\ spread = 0
  /\ ts = ""
  /\ seed = << >>
  /\ full_hash = << >>
  /\ lines = << >>
  /\ bits = << >>
  /\ moving_idx = << >>
  /\ result = None
  /\ history = << >>
  /\ available_indices = << >>
  /\ drawn_cards = << >>
  /\ NoLookup
  /\ arg_query = None
  /\ arg_seed = None
  /\ arg_save = FALSE
  /\ arg_bundle = FALSE
  /\ save_fails = FALSE
  /\ bundle_fails = FALSE
  /\ shown = << >>
  /\ warned = << >>
  /\ exit_code = None
  /\ NoFn

InitReaderMain ==
  /\ TarotMainStart("tarot_reader")
  /\ kdf = << >>
  /\ entropy = TarotEntropy
  /\ deck = build_deck
  /\ pbkdf2_fails \in BOOLEAN
  /\ isatty \in BOOLEAN
  /\ typed \in TypedLines
  /\ typed_spread \in {Some(l) : l \in SpreadLines} \cup (IF isatty THEN {} ELSE {None})
  /\ NoPool

InitRepeatMain ==
  /\ TarotMainStart("RepeatTarot")
  /\ kdf = << >>
  /\ entropy = RepeatEntropy
  /\ deck = << >>
  /\ pbkdf2_fails = FALSE
  /\ isatty = TRUE
  /\ typed \in TypedLines
  /\ typed_spread \in {Some(l) : l \in SpreadLines}
  /\ NoPool

NextTarotMain ==
  \/ run_interactive
  \/ run_piped
  \/ draw_cards_begin
  \/ draw_cards_card
  \/ draw_cards_return
  \/ perform_reading_end
  \/ repeat_main_begin
  \/ repeat_draw_begin
  \/ repeat_draw_card
  \/ repeat_draw_return
  \/ repeat_main_end

-----------------------------------------------------------------------------
(* TAROT.py: the interactive selection by hash prefix *)

HexDigit ==
  <<"0", "1", "2", "3", "4", "5", "6", "7", "8", "9", "a", "b", "c", "d", "e", "f">>

\* bytes.hex() of a block, digit by digit: two digits a byte, the high one first
hexdigits(block) ==
  [k \in 1..(2 * Len(block)) |->
     IF k % 2 = 1 THEN HexDigit[(block[(k + 1) \div 2] \div 16) + 1]
     ELSE HexDigit[(block[k \div 2] % 16) + 1]]

\* str.lower(), on the letters of the texts drawn here
lower_char(c) ==
  CASE c = "A" -> "a" [] c = "B" -> "b" [] c = "C" -> "c"
    [] c = "D" -> "d" [] c = "E" -> "e" [] c = "F" -> "f"
    [] c = "Z" -> "z" [] OTHER -> c

lower(t) == [i \in DOMAIN t |-> lower_char(t[i])]

\* str.split(","): the texts between the commas
split(t) ==
  LET commas == {i \in DOMAIN t : t[i] = ","}
      starts == {1} \cup {i + 1 : i \in commas}
      end(s) == IF \E i \in commas : i >= s
                THEN (CHOOSE i \in commas : i >= s /\ \A j \in commas : j >= s => i <= j) - 1
                ELSE Len(t)
      nth(k) == CHOOSE s \in starts : Cardinality({r \in starts : r < s}) = k - 1
  IN  [k \in 1..Cardinality(starts) |-> SubSeq(t, nth(k), end(nth(k)))]

\* str.startswith(prefix)
startswith(t, prefix) == Len(prefix) <= Len(t) /\ SubSeq(t, 1, Len(prefix)) = prefix

\* A removal that leaves the list as it was
remove_kept(list, x) == list

\* list.remove(x): the list without the first occurrence of x
remove(list, x) ==
  LET at == CHOOSE i \in DOMAIN list : list[i] = x /\ \A j \in 1..(i - 1) : list[j] # x
  IN  SubSeq(list, 1, at - 1) \o SubSeq(list, at + 1, Len(list))

\* The list read from its last entry to its first
reversed(list) == [i \in DOMAIN list |-> list[Len(list) + 1 - i]]

\* rng.shuffle(list) of random.Random(base_seed): the orders taken for it
Shuffles(list) == {list, reversed(list)}

\* ProtectiveHasher.create_seed(query) of TAROT.py: seed_bytes
create_seed_of_query(q) == sha256(q)

\* derive_protected_bytes of an input already derived: its block
derive_protected_block(base_bytes, salt_bytes) ==
  CHOOSE d \in derive_protected_bytes(base_bytes, salt_bytes) : TRUE

\* The dict made by assigning the items' values to their keys in order: a key
\* stands where it was first assigned and holds the value assigned last
dict_of(items) ==
  LET numbered == [i \in DOMAIN items |-> [i |-> i, key |-> items[i].key]]
      first(e) == \A j \in 1..(e.i - 1) : items[j].key # e.key
      last(key) == CHOOSE j \in DOMAIN items :
                     items[j].key = key /\ \A k \in (j + 1)..Len(items) : items[k].key # key
      firsts == SelectSeq(numbered, first)
  IN  [n \in DOMAIN firsts |-> [key |-> firsts[n].key, value |-> items[last(firsts[n].key)].value]]

\* An orientation read from the entropy bit alone
is_reversed_of_bit(protected_digest, enabled) ==
  (protected_digest[Len(protected_digest)] % 2) = 1

\* line 116: ((protected_digest[-1] & 1) == 1) and reversals_enabled
is_reversed_of(protected_digest, enabled) ==
  ((protected_digest[Len(protected_digest)] % 2) = 1) /\ enabled

\* TarotReader.prepare_interactive_deck(query, reversals_enabled), with
\* hash_pool_indices as shuffled
prepare_interactive_deck(q, enabled, hash_pool_indices) ==
  LET base_seed == create_seed_of_query(q)
      item(i) ==
        LET protected_digest == derive_protected_block(base_seed, card_salt(i))
            hash_hex == hexdigits(protected_digest)
        IN  [key |-> SubSeq(hash_hex, 1, 8),
             value |-> DrawnCard(deck[hash_pool_indices[i + 1] + 1],
                                 is_reversed_of(protected_digest, enabled),
                                 hash_hex)]
  IN  dict_of([k \in DOMAIN hash_pool_indices |-> item(k - 1)])

\* lines 103-107: card_indices, twice over with reversals
hash_pool(enabled) ==
  IF enabled THEN range(Len(deck)) \o range(Len(deck)) ELSE range(Len(deck))

\* dict[key]
dict_get(items, key) == (CHOOSE i \in DOMAIN items : items[i].key = key)

\* list(dict.keys())
dict_keys(items) == [i \in DOMAIN items |-> items[i].key]

\* run_interactive lines 207-215: the question, the deck made for it
tarot_begin ==
  /\ prog = "TAROT"
  /\ pc = "main"
  /\ IF strip(typed) = << >>
     THEN /\ exit_with_error("Error: A question is required for the reading.")
          /\ UNCHANGED <<interactive_deck, available_hashes>>
     ELSE /\ query' = join(strip(typed))
          /\ \E shuffled \in Shuffles(hash_pool(reversals_enabled)) :
               interactive_deck' =
                 prepare_interactive_deck(query', reversals_enabled, shuffled)
          /\ available_hashes' = dict_keys(interactive_deck')
          /\ pc' = "num"
          /\ UNCHANGED <<warned, exit_code, spread>>
  /\ UNCHANGED <<clock, entropy, kdf, prog, show_nuclear, ts, seed, full_hash, lines,
                 bits, moving_idx, result, history, in_bits, meta, deck,
                 available_indices, drawn_cards, pbkdf2_fails, args, shown,
                 reversals_enabled, choices, typed_lines, fn>>

POSITION_LABELS_3 == <<"Past", "Present", "Future">>

POSITION_LABELS_10 ==
  <<"Present (Significator)", "Challenge (Crossing)", "Subconscious (Below)",
    "Recent Past (Behind)", "Conscious (Above)", "Near Future (Before You)",
    "Self", "Environment", "Hopes & Fears", "Outcome">>

\* What the prompts and the reveal loop print
said(text) == [kind |-> "message", text |-> text]

\* TarotApp.display_card(card, choice, index, label)
display_card(card, choice, index, label) ==
  [kind |-> "card", index |-> index + 1, choice |-> choice, label |-> label,
   name |-> card.card.name,
   orientation |-> IF card.is_reversed THEN "Reversed" ELSE "Upright"]

\* TarotApp.display_overview(drawn_cards, query, num_cards)
display_overview(cards_drawn, q, num_cards) ==
  IF cards_drawn = << >>
  THEN [kind |-> "overview", caption |-> q, rows |-> << >>]
  ELSE LET labels == IF num_cards = 3 THEN POSITION_LABELS_3
                     ELSE IF num_cards = 10 THEN POSITION_LABELS_10 ELSE << >>
       IN  [kind |-> "overview", caption |-> q,
            rows |-> [i \in DOMAIN cards_drawn |->
                        [label |-> IF i <= Len(labels) THEN labels[i] ELSE "",
                         card |-> cards_drawn[i].card.name,
                         orientation |-> IF cards_drawn[i].is_reversed THEN "Reversed"
                                         ELSE "Upright"]]]

\* input() at the end of what was typed: EOFError, caught in main, lines 296-298
tarot_eof ==
  /\ warned' = Append(warned, "An unexpected error occurred")
  /\ exit_code' = Some(1)
  /\ pc' = "exit"

\* run_interactive lines 217-225: one turn of the loop asking how many cards
tarot_num_cards ==
  /\ prog = "TAROT"
  /\ pc = "num"
  /\ IF typed_lines = << >>
     THEN /\ tarot_eof
          /\ UNCHANGED <<spread, shown, typed_lines>>
     ELSE LET num_cards == int(strip(Head(typed_lines)))
          IN /\ typed_lines' = Tail(typed_lines)
             /\ IF num_cards # None /\ num_cards[1] \in {1, 3, 10}
                THEN /\ spread' = num_cards[1]
                     /\ shown' = Append(shown, said("Available Hashes:"))
                     /\ pc' = "choices"
                ELSE /\ shown' = Append(shown,
                                        said("Invalid input. Please enter 1, 3, or 10."))
                     /\ UNCHANGED <<spread, pc>>
             /\ UNCHANGED <<warned, exit_code>>
  /\ UNCHANGED <<clock, entropy, kdf, prog, query, show_nuclear, ts, seed, full_hash,
                 lines, bits, moving_idx, result, history, in_bits, meta, deck,
                 available_indices, drawn_cards, pbkdf2_fails, args,
                 reversals_enabled, interactive_deck, available_hashes, choices, fn>>

\* line 235: [c.strip().lower() for c in choices_str.split(',') if c.strip()]
split_choices(choices_str) ==
  LET given(c) == strip(c) # << >>
      parts == SelectSeq(split(choices_str), given)
  IN  [i \in DOMAIN parts |-> lower(strip(parts[i]))]

\* line 241: a prefix is valid from 3 characters on
long_enough(c) == Len(c) >= 3

\* run_interactive lines 233-247: one turn of the loop asking for the prefixes
tarot_choices ==
  /\ prog = "TAROT"
  /\ pc = "choices"
  /\ IF typed_lines = << >>
     THEN /\ tarot_eof
          /\ UNCHANGED <<choices, drawn_cards, shown, typed_lines>>
     ELSE LET entered == split_choices(strip(Head(typed_lines)))
          IN /\ typed_lines' = Tail(typed_lines)
             /\ IF Len(entered) # spread
                THEN /\ shown' = Append(shown,
                                        said("Please enter exactly num_cards hashes."))
                     /\ UNCHANGED <<choices, drawn_cards, pc>>
                ELSE IF \E i \in DOMAIN entered : ~long_enough(entered[i])
                THEN /\ shown' = Append(shown,
                                        said("Error: All hash prefixes must be at least 3 characters long."))
                     /\ UNCHANGED <<choices, drawn_cards, pc>>
                ELSE /\ choices' = entered
                     /\ drawn_cards' = << >>
                     /\ shown' = Append(shown, said("--- Your Revealed Cards ---"))
                     /\ pc' = "reveal"
             /\ UNCHANGED <<warned, exit_code>>
  /\ UNCHANGED <<clock, entropy, kdf, prog, query, show_nuclear, ts, seed, full_hash,
                 lines, bits, moving_idx, result, history, in_bits, meta, deck, spread,
                 available_indices, pbkdf2_fails, args, reversals_enabled,
                 interactive_deck, available_hashes, fn>>

\* The hashes a choice is taken to stand for when it is looked up whole
matches_first(hashes, choice) ==
  LET starts(h) == startswith(h, choice)
      found == SelectSeq(hashes, starts)
  IN  IF found = << >> THEN << >> ELSE <<found[1]>>

\* line 252: [h for h in available_hashes if h.startswith(choice)]
matches_of(hashes, choice) ==
  LET starts(h) == startswith(h, choice)
  IN  SelectSeq(hashes, starts)

\* run_interactive lines 251-270: one turn of the reveal loop
tarot_reveal ==
  /\ prog = "TAROT"
  /\ pc = "reveal"
  /\ Len(drawn_cards) < Len(choices)
  /\ LET i == Len(drawn_cards)
         choice == choices[i + 1]
         matches == matches_of(available_hashes, choice)
     IN IF Len(matches) = 1
        THEN LET chosen_hash == matches[1]
                 card_to_reveal == interactive_deck[dict_get(interactive_deck, chosen_hash)].value
                 label == IF spread = 3 THEN Some(POSITION_LABELS_3[i + 1])
                          ELSE IF spread = 10 THEN Some(POSITION_LABELS_10[i + 1])
                          ELSE None
             IN /\ shown' = Append(shown, display_card(card_to_reveal, chosen_hash, i, label))
                /\ drawn_cards' = Append(drawn_cards, card_to_reveal)
                /\ available_hashes' = remove(available_hashes, chosen_hash)
                /\ UNCHANGED <<pc, exit_code>>
        ELSE /\ shown' = Append(shown,
                                [kind |-> IF Len(matches) > 1 THEN "ambiguous" ELSE "invalid",
                                 index |-> i + 1, choice |-> choice])
             /\ exit_code' = Some(0)
             /\ pc' = "exit"
             /\ UNCHANGED <<drawn_cards, available_hashes>>
  /\ UNCHANGED <<clock, entropy, kdf, prog, query, show_nuclear, ts, seed, full_hash,
                 lines, bits, moving_idx, result, history, in_bits, meta, deck, spread,
                 available_indices, pbkdf2_fails, args, warned, reversals_enabled,
                 interactive_deck, choices, typed_lines, fn>>

\* run_interactive line 272, after the last choice: the overview
tarot_overview ==
  /\ prog = "TAROT"
  /\ pc = "reveal"
  /\ Len(drawn_cards) >= Len(choices)
  /\ shown' = Append(shown, display_overview(drawn_cards, query, spread))
  /\ exit_code' = Some(0)
  /\ pc' = "exit"
  /\ UNCHANGED <<clock, entropy, kdf, prog, query, show_nuclear, ts, seed, full_hash,
                 lines, bits, moving_idx, result, history, in_bits, meta, tarot, args,
                 warned, pool, fn>>

\* Bytes 0-3 of the block of salt card-i spell "ab", i modulo wrap, "cdef";
\* the last byte is i + odd, the bytes between are 0.  With a wrap below the
\* number of salts, blocks of different salts begin with the same 4 bytes.
PoolBlock(i, odd, wrap) ==
  Block(HASH_LENGTH, <<171, i % wrap, 205, 239>>, 0, (i + odd) % 256)

\* The positions prepare_interactive_deck derives a block for
PoolPositions == 0..(2 * Len(build_deck) - 1)

\* The wraps taken: none of the salts' blocks share their first bytes, or
\* those of the salts 64 apart do
PoolWraps == {256, 64}

\* The blocks of every salt of a question, derived before the run: one of the
\* tables the derivation can have
PoolHashes(q, odd, wrap) ==
  LET input(i) == derive_protected_key(create_seed_of_query(q), card_salt(i))
  IN  [k \in {input(i) : i \in PoolPositions} |->
         PoolBlock(CHOOSE i \in PoolPositions : input(i) = k, odd, wrap)]

\* The lines typed after the question: the number of cards, then the prefixes
PoolLines ==
  { <<<<"1">>, <<"a", "b", "0", "0">>>>,
    <<<<"3">>, <<"a", "b", "0", "0", ",", " ", "A", "B", "0", "1", " ", ",", "a", "b", "4", "d">>>>,
    <<<<"3">>, <<"a", "b", "0", "0", ",", "a", "b", "0", ",", "a", "b", "0", "1">>>>,
    <<<<"3">>, <<"a", "b", "0", "0", ",", "a", "b", "0", "1", ",", "z", "z", "z">>>>,
    <<<<"3">>, <<"a", "b", "0", "0", ",", "a", "b", "0", "0", ",", "a", "b", "0", "1">>>>,
    <<<<"1">>, <<"a", "b", "0">>>>,
    <<<<"7">>, <<"x">>, <<>>, <<"1">>, <<"a", "b", "4", "e">>>>,
    <<<<"1">>, <<"a", "b">>, <<"a", "b", "0", "0", ",", "a", "b", "0", "1">>, <<",", "a", "b", "0", "5", ",">>>>,
    <<<<"1", "0">>, <<"a", "b", "0", "0", ",", "a", "b", "0", "1", ",", "a", "b", "0", "2", ",", "a", "b", "0", "3", ",", "a", "b", "0", "4", ",", "a", "b", "0", "5", ",", "a", "b", "0", "6", ",", "a", "b", "0", "7", ",", "a", "b", "0", "8", ",", "a", "b", "4", "c">>>>,
    <<<<"1", "0">>, <<"a", "b", "0", "0", ",", "a", "b", "0", "1", ",", "a", "b", "0", "2", ",", "a", "b", "0", "3", ",", "a", "b", "0", "4", ",", "a", "b", "0", "5", ",", "a", "b", "4", ",", "a", "b", "0", "7", ",", "a", "b", "0", "8", ",", "a", "b", "0", "9">>>>,
    <<<<"1">>>>,
    <<>> }

InitPool ==
  /\ TarotMainStart("TAROT")
  /\ entropy = TarotEntropy
  /\ deck = build_deck
  /\ pbkdf2_fails \in BOOLEAN
  /\ isatty = TRUE
  /\ typed \in TypedLines
  /\ typed_spread = None
  /\ kdf \in {PoolHashes(join(strip(typed)), odd, wrap) : odd \in {0, 1}, wrap \in PoolWraps}
  /\ reversals_enabled \in BOOLEAN
  /\ interactive_deck = << >>
  /\ available_hashes = << >>
  /\ choices = << >>
  /\ typed_lines \in PoolLines

NextPool ==
  \/ tarot_begin
  \/ tarot_num_cards
  \/ tarot_choices
  \/ tarot_reveal
  \/ tarot_overview

\* One run of TAROT.py from its prompts to its exit
SpecPool == InitPool /\ [][NextPool]_vars

\* One run of any of the tarot programs from its prompts to its exit
SpecTarotMain ==
  (InitReaderMain \/ InitRepeatMain \/ InitPool) /\ [][NextTarotMain \/ NextPool]_vars

-----------------------------------------------------------------------------
(* I-CHING3.py: two runs of one command line *)

\* The values of --seed: absent, or the text given
Seeds == {None, Some(<<"7">>)}

\* The command is run once more, with the arguments of the first run
run_again ==
  /\ prog = "I-CHING3"
  /\ pc = "exit"
  /\ history = << >>
  /\ result # None
  /\ history' = <<[prog |-> prog, show_nuclear |-> show_nuclear, reading |-> result[1]]>>
  /\ pc' = "main"
  /\ query' = ""
  /\ ts' = ""
  /\ seed' = << >>
  /\ full_hash' = << >>
  /\ lines' = << >>
  /\ bits' = << >>
  /\ moving_idx' = << >>
  /\ result' = None
  /\ shown' = << >>
  /\ warned' = << >>
  /\ exit_code' = None
  /\ UNCHANGED <<clock, entropy, kdf, prog, show_nuclear, in_bits, meta, tarot, args,
                 pool, fn>>

InitSeed ==
  /\ clock = 0
  /\ entropy = LeanEntropy
  /\ kdf = << >>
  /\ prog = "I-CHING3"
  /\ show_nuclear = TRUE
  /\ pc = "main"
  /\ query = ""
  /\ ts = ""
  /\ seed = << >>
  /\ full_hash = << >>
  /\ lines = << >>
  /\ bits = << >>
  /\ moving_idx = << >>
  /\ result = None
  /\ history = << >>
  /\ NoLookup
  /\ NoTarot
  /\ arg_query = Some(<<"a">>)
  /\ arg_seed \in Seeds
  /\ arg_save = FALSE
  /\ arg_bundle = FALSE
  /\ typed = << >>
  /\ typed_spread = None
  /\ isatty = TRUE
  /\ save_fails = FALSE
  /\ bundle_fails = FALSE
  /\ shown = << >>
  /\ warned = << >>
  /\ exit_code = None
  /\ NoPool
  /\ NoFn

NextSeed ==
  \/ main3_begin
  \/ TickBeforeCast
  \/ cast_begin
  \/ cast_line
  \/ cast_return
  \/ main3_end
  \/ run_again

\* I-CHING3.py run twice with one query and one --seed, at any two seconds
SpecSeed == InitSeed /\ [][NextSeed]_vars

-----------------------------------------------------------------------------
(* The line value of an entropy block, as each hexagram program computes it *)

\* The blocks handed to the functions: every byte 0, over two fillings of
\* the bytes after it
LineBlocks == {Block(DKLEN, <<b>>, fill, last) : b \in 0..255, fill \in {0, 255},
                                                 last \in {0, 165}}

\* I-CHING.py: val = line_from_digest(d), line 220
call_line_from_digest ==
  /\ prog = "I-CHING"
  /\ pc = "line"
  /\ line_out' = Some(line_from_digest(in_block))
  /\ pc' = "returned"
  /\ UNCHANGED <<clock, entropy, kdf, prog, query, show_nuclear, ts, seed, full_hash,
                 lines, bits, moving_idx, result, history, in_bits, meta, tarot, cli,
                 pool, in_block>>

\* I-CHING3.py: line_value = derive_line_value(line_entropy), line 1150
call_derive_line_value ==
  /\ prog = "I-CHING3"
  /\ pc = "line"
  /\ line_out' = Some(derive_line_value(in_block))
  /\ pc' = "returned"
  /\ UNCHANGED <<clock, entropy, kdf, prog, query, show_nuclear, ts, seed, full_hash,
                 lines, bits, moving_idx, result, history, in_bits, meta, tarot, cli,
                 pool, in_block>>

InitLine ==
  /\ clock = 0
  /\ entropy = {}
  /\ kdf = << >>
  /\ prog \in Programs
  /\ query = ""
  /\ show_nuclear = TRUE
  /\ pc = "line"
  /\ ts = ""
  /\ seed = << >>
  /\ full_hash = << >>
  /\ lines = << >>
  /\ bits = << >>
  /\ moving_idx = << >>
  /\ result = None
  /\ history = << >>
  /\ NoLookup
  /\ NoTarot
  /\ NoCli
  /\ NoPool
  /\ in_block \in LineBlocks
  /\ line_out = None

NextLine ==
  \/ call_line_from_digest
  \/ call_derive_line_value

\* Either program's line-value function applied to a block
SpecLine == InitLine /\ [][NextLine]_vars

-----------------------------------------------------------------------------
(* The two trigrams of a pattern, as each hexagram program names them *)

\* I-CHING.py build_meta lines 183-184: lower and upper of bits6
call_trigram_from_bits ==
  /\ prog = "I-CHING"
  /\ pc = "trigrams"
  /\ meta' = Some([lower |-> trigram_from_bits(Slice(in_bits, 0, 3)),
                   upper |-> trigram_from_bits(Slice(in_bits, 3, 6))])
  /\ pc' = "named"
  /\ UNCHANGED <<clock, entropy, kdf, prog, query, show_nuclear, ts, seed,
                 full_hash, lines, bits, moving_idx, result, history, in_bits, tarot,
                 cli, pool, fn>>

\* I-CHING3.py IChing.cast lines 1161-1162: lower_trigram and upper_trigram
call_bits_to_trigram ==
  /\ prog = "I-CHING3"
  /\ pc = "trigrams"
  /\ meta' = Some([lower |-> bits_to_trigram(Slice(in_bits, 0, 3)),
                   upper |-> bits_to_trigram(Slice(in_bits, 3, 6))])
  /\ pc' = "named"
  /\ UNCHANGED <<clock, entropy, kdf, prog, query, show_nuclear, ts, seed,
                 full_hash, lines, bits, moving_idx, result, history, in_bits, tarot,
                 cli, pool, fn>>

InitTrigram ==
  /\ clock = 0
  /\ entropy = {}
  /\ kdf = << >>
  /\ prog \in Programs
  /\ query = ""
  /\ show_nuclear = TRUE
  /\ pc = "trigrams"
  /\ ts = ""
  /\ seed = << >>
  /\ full_hash = << >>
  /\ lines = << >>
  /\ bits = << >>
  /\ moving_idx = << >>
  /\ result = None
  /\ history = << >>
  /\ in_bits \in Patterns
  /\ meta = None
  /\ NoTarot
  /\ NoCli
  /\ NoPool
  /\ NoFn

NextTrigram ==
  \/ call_trigram_from_bits
  \/ call_bits_to_trigram

\* Either program's trigram function applied to both halves of a pattern
SpecTrigram == InitTrigram /\ [][NextTrigram]_vars

-----------------------------------------------------------------------------
(* A reading of any seeded program, the clock advancing while it is made *)

InitClock == InitRerun \/ InitTarot \/ InitPool

NextClock ==
  \/ Tick
  \/ cast_hexagram_begin
  \/ cast_hexagram_line
  \/ cast_hexagram_return
  \/ cast_begin
  \/ cast_line
  \/ cast_return
  \/ draw_cards_begin
  \/ draw_cards_card
  \/ draw_cards_return
  \/ NextPool

\* One reading of I-CHING.py, I-CHING3.py, tarot_reader.py or TAROT.py, with
\* seconds passing at any point of it
SpecClock == InitClock /\ [][NextClock]_vars

-----------------------------------------------------------------------------
(* tarot_reader.py: two readings made on one TarotReader *)

\* The spreads of the two readings
AgainSpreads == {1, 3}

\* draw_cards is called once more on the same reader: the reader keeps its
\* deck, the block function keeps what it derived
draw_again ==
  /\ prog = "tarot_reader"
  /\ pc = "done"
  /\ history = << >>
  /\ history' = <<[prog |-> prog, show_nuclear |-> show_nuclear, reading |-> result[1]]>>
  /\ \E q \in Queries, n \in AgainSpreads :
       /\ query' = q
       /\ spread' = n
  /\ pc' = "draw"
  /\ ts' = ""
  /\ seed' = << >>
  /\ result' = None
  /\ UNCHANGED <<clock, entropy, kdf, prog, show_nuclear, full_hash, lines, bits,
                 moving_idx, in_bits, meta, deck, available_indices, drawn_cards,
                 pbkdf2_fails, cli, pool, fn>>

InitAgain ==
  /\ clock = 0
  /\ entropy = TarotEntropy
  /\ kdf = << >>
  /\ deck = build_deck
  /\ pbkdf2_fails \in BOOLEAN
  /\ \E q \in Queries, n \in AgainSpreads : TarotStart("tarot_reader", q, n)

NextAgain ==
  \/ TickBeforeDraw
  \/ draw_cards_begin
  \/ draw_cards_card
  \/ draw_cards_return
  \/ draw_again

\* Two calls of TarotReader.draw_cards on one reader, at any two seconds
SpecAgain == InitAgain /\ [][NextAgain]_vars

-----------------------------------------------------------------------------
(* The nuclear pattern of a primary pattern, as each hexagram program takes it *)

\* I-CHING.py cast_hexagram line 240: nuclear_from_bits(primary_bits)
call_nuclear_from_bits ==
  /\ prog = "I-CHING"
  /\ pc = "nuclear"
  /\ meta' = Some(nuclear_from_bits(in_bits))
  /\ pc' = "taken"
  /\ UNCHANGED <<clock, entropy, kdf, prog, query, show_nuclear, ts, seed,
                 full_hash, lines, bits, moving_idx, result, history, in_bits, tarot,
                 cli, pool, fn>>

\* I-CHING3.py IChing.cast line 1188: nuclear_bits of primary_bits
call_cast_nuclear_bits ==
  /\ prog = "I-CHING3"
  /\ pc = "nuclear"
  /\ meta' = Some(cast_nuclear_bits(in_bits))
  /\ pc' = "taken"
  /\ UNCHANGED <<clock, entropy, kdf, prog, query, show_nuclear, ts, seed,
                 full_hash, lines, bits, moving_idx, result, history, in_bits, tarot,
                 cli, pool, fn>>

InitNuclear ==
  /\ clock = 0
  /\ entropy = {}
  /\ kdf = << >>
  /\ prog \in Programs
  /\ query = ""
  /\ show_nuclear = TRUE
  /\ pc = "nuclear"
  /\ ts = ""
  /\ seed = << >>
  /\ full_hash = << >>
  /\ lines = << >>
  /\ bits = << >>
  /\ moving_idx = << >>
  /\ result = None
  /\ history = << >>
  /\ in_bits \in Patterns
  /\ meta = None
  /\ NoTarot
  /\ NoCli
  /\ NoPool
  /\ NoFn

NextNuclear ==
  \/ call_nuclear_from_bits
  \/ call_cast_nuclear_bits

\* The nuclear pattern of each of the 64 primary patterns, in either program.
SpecNuclear == InitNuclear /\ [][NextNuclear]_vars

-----------------------------------------------------------------------------
(* Properties of a hexagram reading *)

\* The reading the run returned, and its parts under either program's names.
Reading == result[1]

ReadingLines == IF prog = "I-CHING" THEN Reading.lines ELSE Reading.primary_lines

ReadingMoving ==
  IF prog = "I-CHING" THEN Reading.moving_indices ELSE Reading.moving_positions

ReadingRelatingRecord ==
  IF prog = "I-CHING" THEN Reading.relating_meta ELSE Reading.relating_info

ReadingNuclearRecord ==
  IF prog = "I-CHING" THEN Reading.nuclear_meta ELSE Reading.nuclear_info

Elements(list) == {list[i] : i \in DOMAIN list}

\* C2: when the moving set M of a cast is not empty, the relating pattern R
\* differs from the primary pattern P at every position of M and equals it at
\* every other position.
C2_RelatingDiffersExactlyAtMoving ==
  (result # None /\ ReadingMoving # << >>) =>
    /\ Reading.relating_bits # None
    /\ \A i \in 0..5 :
         (Reading.relating_bits[1][i + 1] # Reading.primary_bits[i + 1])
           <=> (i \in Elements(ReadingMoving))

C2_Witness ==
  /\ result # None
  /\ prog = "I-CHING"
  /\ Reading.lines = <<6, 7, 8, 9, 7, 6>>
  /\ Reading.moving_indices = <<0, 3, 5>>
  /\ Reading.relating_bits = Some(<<1, 1, 0, 0, 1, 1>>)

\* C3: the relating bits and the relating record of a reading are present
\* exactly when some line is 6 or 9, which is exactly when the moving set is
\* not empty; otherwise both are None.
C3_RelatingPresentIffMoving ==
  result # None =>
    LET some_moving == \E i \in 1..6 : ReadingLines[i] \in {6, 9}
    IN  /\ (ReadingMoving # << >>) <=> some_moving
        /\ (Reading.relating_bits # None) <=> some_moving
        /\ (ReadingRelatingRecord # None) <=> some_moving

C3_Witness ==
  /\ result # None
  /\ prog = "I-CHING3"
  /\ Reading.primary_lines = <<7, 8, 7, 8, 8, 7>>
  /\ Reading.relating_bits = None
  /\ Reading.relating_info = None

\* [P1, P2, P3, P2, P3, P4] of a pattern P0..P5
InnerLines(P) == <<P[2], P[3], P[4], P[3], P[4], P[5]>>

\* C4: the nuclear pattern of a reading is [P1, P2, P3, P2, P3, P4] of its
\* primary pattern P0..P5: the nuclear bits (I-CHING3) are that list and the
\* nuclear record is the record of that list's two trigrams.
C4_NuclearIsInnerLines ==
  result # None =>
    LET N == InnerLines(Reading.primary_bits)
    IN  /\ (prog = "I-CHING3" /\ Reading.nuclear_bits # None) =>
             /\ Reading.nuclear_bits[1] = N
             /\ Reading.nuclear_info = Some(pattern_info(N))
        /\ (prog = "I-CHING" /\ Reading.nuclear_meta # None) =>
             /\ Reading.nuclear_meta[1].lower = trigram_from_bits(SubSeq(N, 1, 3))
             /\ Reading.nuclear_meta[1].upper = trigram_from_bits(SubSeq(N, 4, 6))

C4_Witness ==
  /\ result # None
  /\ prog = "I-CHING3"
  /\ Reading.primary_bits = <<1, 0, 1, 1, 0, 0>>
  /\ Reading.nuclear_bits = Some(<<0, 1, 1, 1, 1, 0>>)

\* C5 as stated: every completed reading carries a nuclear record.
C5_EveryReadingHasNuclear ==
  result # None => ReadingNuclearRecord # None

\* C5 as amended: a completed reading carries the nuclear record (and, in
\* I-CHING3, the nuclear bits) exactly when the run was not given
\* --no-nuclear, whether or not a line is moving.
C5_NuclearUnlessNoNuclear ==
  result # None =>
    /\ (ReadingNuclearRecord # None) <=> show_nuclear
    /\ prog = "I-CHING3" => ((Reading.nuclear_bits # None) <=> show_nuclear)

C5_Witness ==
  /\ result # None
  /\ show_nuclear
  /\ ReadingMoving = << >>
  /\ ReadingNuclearRecord # None

-----------------------------------------------------------------------------
(* Properties of the resolution of a pattern *)

Resolved == meta[1]

\* The trigrams of the pattern to resolve
InLower == bits_to_trigram(SubSeq(in_bits, 1, 3))

InUpper == bits_to_trigram(SubSeq(in_bits, 4, 6))

\* key in dict
HasKey(items, key) == \E i \in DOMAIN items : items[i].key = key

\* C6: in I-CHING3 every pair (lower trigram, upper trigram) resolves through
\* HEXAGRAM_DATABASE, not through the default, to a record with a number in
\* 1..64 and a name that is not empty, and no other pair resolves to the same
\* (number, name).
C6_AllPairsResolveThroughTable ==
  (pc = "resolved" /\ prog = "I-CHING3") =>
    /\ HasKey(HEXAGRAM_DATABASE, <<InLower, InUpper>>)
    /\ Resolved.number \in 1..64
    /\ Resolved.name # ""
    /\ \A other \in Patterns :
         other # in_bits =>
           <<pattern_info(other).number, pattern_info(other).name>>
             # <<Resolved.number, Resolved.name>>

\* C7 as stated: the resolved record of every pattern has a judgement and an
\* image that are not empty.
C7_JudgementAndImageNonEmpty ==
  pc = "resolved" => (Resolved.judgement # "" /\ Resolved.image # "")

\* C7 as amended: the resolved record of every pattern has an image that is
\* not empty; its judgement is not empty in I-CHING3, and in I-CHING it is
\* not empty exactly when CONCISE_GLOSS has an entry for the record's number.
C7_ImageNonEmptyJudgementWhereGlossed ==
  pc = "resolved" =>
    /\ Resolved.image # ""
    /\ prog = "I-CHING3" => Resolved.judgement # ""
    /\ prog = "I-CHING" =>
         ((Resolved.judgement # "")
            <=> \E i \in DOMAIN CONCISE_GLOSS : str(CONCISE_GLOSS[i].key) = Resolved.number)

C7_Witness ==
  /\ pc = "resolved"
  /\ prog = "I-CHING"
  /\ in_bits = <<0, 0, 0, 0, 0, 0>>
  /\ ~HasKey(HEX_META, <<InLower, InUpper>>)
  /\ Resolved.judgement = ""
  /\ Resolved.image = "Earth is receptive and devoted above Earth is receptive and devoted."

\* C8: every pattern resolves to a record, and when its trigram pair is not
\* a key of the table the record has the unknown number ("--" in I-CHING, 0 in
\* I-CHING3), the name "<upper trigram name> over <lower trigram name>" and
\* the fields of a record found in the table.
C8_FallbackRecordShape ==
  pc = "resolved" =>
    /\ meta # None
    /\ (prog = "I-CHING" /\ ~HasKey(HEX_META, <<InLower, InUpper>>)) =>
         /\ Resolved.number = "--"
         /\ Resolved.name = TRIGRAMS[InUpper] \o " over " \o TRIGRAMS[InLower]
         /\ \A other \in Patterns : DOMAIN build_meta(other) = DOMAIN Resolved
    /\ (prog = "I-CHING3" /\ ~HasKey(HEXAGRAM_DATABASE, <<InLower, InUpper>>)) =>
         /\ Resolved.number = 0
         /\ Resolved.name = TRIGRAM_SYMBOLS[InUpper] \o " over " \o TRIGRAM_SYMBOLS[InLower]
         /\ \A i \in DOMAIN HEXAGRAM_DATABASE :
              DOMAIN HEXAGRAM_DATABASE[i].value = DOMAIN Resolved

C8_Witness ==
  /\ pc = "resolved"
  /\ prog = "I-CHING3"
  /\ in_bits = <<0, 0, 1, 1, 0, 0>>
  /\ ~HasKey(HEXAGRAM_DATABASE, <<InLower, InUpper>>)
  /\ Resolved.number = 0
  /\ Resolved.name = "Gen (Mountain/Keeping Still) over Zhen (Thunder/Arousing)"

-----------------------------------------------------------------------------
(* Properties of two hexagram castings *)

\* The castings made so far: the earlier run's and, once it returned, the
\* current run's.
Castings ==
  Elements(history) \cup
    (IF result # None
     THEN {[prog |-> prog, show_nuclear |-> show_nuclear, reading |-> result[1]]}
     ELSE {})

CastTimestamp(c) ==
  IF c.prog = "I-CHING" THEN c.reading.timestamp_utc ELSE c.reading.timestamp

\* The first 16 hex digits of the seed, which both programs record.
CastSeed16(c) ==
  IF c.prog = "I-CHING" THEN hex_prefix(c.reading.seed_hex, 16) ELSE c.reading.seed_hash

CastLines(c) == IF c.prog = "I-CHING" THEN c.reading.lines ELSE c.reading.primary_lines

CastMoving(c) ==
  IF c.prog = "I-CHING" THEN c.reading.moving_indices ELSE c.reading.moving_positions

\* The nuclear pattern, by its trigrams (lower, upper): Optional
CastNuclear(c) ==
  IF c.prog = "I-CHING"
  THEN IF c.reading.nuclear_meta = None THEN None
       ELSE Some(<<c.reading.nuclear_meta[1].lower, c.reading.nuclear_meta[1].upper>>)
  ELSE IF c.reading.nuclear_bits = None THEN None
       ELSE Some(<<bits_to_trigram(SubSeq(c.reading.nuclear_bits[1], 1, 3)),
                   bits_to_trigram(SubSeq(c.reading.nuclear_bits[1], 4, 6))>>)

\* The whole record a program returns, when both castings are the same
\* program's with the same options
SameRun(c, d) == c.prog = d.prog /\ c.show_nuclear = d.show_nuclear

\* C1: two castings that use the same query and timestamp have the same
\* seed, the same six line values, the same primary and relating patterns
\* and, where both computed one, the same nuclear pattern; two runs of one
\* program with the same options return the same reading.
C1_SameQueryAndTimeSameReading ==
  \A c, d \in Castings :
    (c.reading.query = d.reading.query /\ CastTimestamp(c) = CastTimestamp(d)) =>
      /\ CastSeed16(c) = CastSeed16(d)
      /\ CastLines(c) = CastLines(d)
      /\ c.reading.primary_bits = d.reading.primary_bits
      /\ CastMoving(c) = CastMoving(d)
      /\ c.reading.relating_bits = d.reading.relating_bits
      /\ (CastNuclear(c) # None /\ CastNuclear(d) # None) => CastNuclear(c) = CastNuclear(d)
      /\ SameRun(c, d) => c.reading = d.reading

C1_Witness ==
  /\ history # << >>
  /\ result # None
  /\ history[1].prog = "I-CHING"
  /\ prog = "I-CHING3"
  /\ history[1].reading.query = Reading.query
  /\ history[1].reading.timestamp_utc = Reading.timestamp
  /\ history[1].reading.lines = <<6, 8, 8, 6, 8, 6>>
  /\ Reading.primary_lines = <<6, 8, 8, 6, 8, 6>>

-----------------------------------------------------------------------------
(* Properties of a tarot spread *)

\* The deck positions of the cards TarotReader.draw_cards has drawn so far
DrawnPositions == [i \in DOMAIN drawn_cards |-> drawn_cards[i].card.deck_position]

DeckPositions == {deck[i].deck_position : i \in DOMAIN deck}

\* C9: TarotReader.draw_cards for a spread of N cards returns N cards with
\* pairwise distinct deck positions; after every draw the drawn positions and
\* the pool are disjoint and together exactly the 78 positions of the deck,
\* the pool shrinking by one a draw, so that the 78th draw leaves it empty.
C9_DrawnWithoutReplacement ==
  (prog = "tarot_reader" /\ pc \in {"cards", "done"}) =>
    /\ Cardinality(DeckPositions) = 78
    /\ \A i, j \in DOMAIN drawn_cards :
         i # j => DrawnPositions[i] # DrawnPositions[j]
    /\ Elements(DrawnPositions) \cap Elements(available_indices) = {}
    /\ Elements(DrawnPositions) \cup Elements(available_indices) = DeckPositions
    /\ Len(available_indices) = 78 - Len(drawn_cards)
    /\ (Len(drawn_cards) = 78 => available_indices = << >>)
    /\ (result # None =>
          /\ result[1].drawn_cards = drawn_cards
          /\ Len(result[1].drawn_cards) = spread)

\* A spread of ten returned whose first two draws selected the same index of
\* the pool (5), and so the positions 5 and 6.
C9_Witness ==
  /\ prog = "tarot_reader"
  /\ result # None
  /\ spread = 10
  /\ Len(result[1].drawn_cards) = 10
  /\ DrawnPositions[1] = 5
  /\ DrawnPositions[2] = 6

\* The loop run through the whole deck has emptied the pool.
WholeDeckDrawn ==
  /\ prog = "tarot_reader"
  /\ result # None
  /\ Len(drawn_cards) = 78
  /\ available_indices = << >>

\* C10 as stated: a spread RepeatTarot's draw_cards returns contains each card
\* of the list at most once.
C10_EachCardAtMostOnce ==
  (prog = "RepeatTarot" /\ result # None) =>
    \A i, j \in DOMAIN result[1] : i # j => result[1][i] # result[1][j]

\* C10: a spread RepeatTarot's draw_cards returns for a size of 1, 3 or 10 has
\* that many entries, each of them a card of the 78-card list (drawn from the
\* whole list, so a card may come again).
C10_SpreadOfListedCards ==
  (prog = "RepeatTarot" /\ result # None) =>
    /\ spread \in SpreadType
    /\ Len(result[1]) = spread
    /\ \A i \in DOMAIN result[1] : result[1][i] \in Elements(cards)
    /\ Cardinality(Elements(cards)) = DECK_SIZE

\* A spread of three returned with the same card in its first two places
C10_Witness ==
  /\ prog = "RepeatTarot"
  /\ result # None
  /\ spread = 3
  /\ Len(result[1]) = 3
  /\ result[1][1] = result[1][2]

-----------------------------------------------------------------------------
(* Properties of main() of the hexagram programs *)

\* The text the run was given as its query: the value of -q/--query when that
\* is given and not empty, else the line typed at the prompt
GivenQuery == IF truthy(arg_query) THEN arg_query[1] ELSE typed

Rejected(message) ==
  /\ pc = "exit"
  /\ exit_code = Some(1)
  /\ warned = <<message>>

NothingDerived ==
  /\ ts = ""
  /\ seed = << >>
  /\ full_hash = << >>
  /\ lines = << >>
  /\ kdf = << >>
  /\ result = None
  /\ shown = << >>

\* C11: in both hexagram programs a query that is empty or only whitespace,
\* given with -q/--query or typed at the prompt, is rejected with an error
\* before the seed or any line is derived.
C11_BlankQueryRejected ==
  (pc # "main" /\ strip(GivenQuery) = << >>) =>
    /\ NothingDerived
    /\ \/ prog = "I-CHING" /\ Rejected("Error: query required.")
       \/ prog = "I-CHING3" /\ Rejected("Error: A question is required for divination.")


\* What a tarot run has derived of its cards
NoCardDerived ==
  /\ drawn_cards = << >>
  /\ interactive_deck = << >>
  /\ seed = << >>
  /\ result = None
  /\ shown = << >>

\* C12: in every tarot program a question that is empty or only whitespace is
\* rejected with an error, exit status 1, before any card is derived.
C12_BlankQuestionRejected ==
  (prog \in {"tarot_reader", "TAROT", "RepeatTarot"} /\ pc # "main"
     /\ strip(typed) = << >>) =>
    /\ pc = "exit"
    /\ exit_code = Some(1)
    /\ warned # << >>
    /\ NoCardDerived


\* C13: when PBKDF2 fails, every derivation of an accepted question recovers
\* with the iterated SHA-256 construction giving a 32-byte block, and the run
\* ends with its reading and without an error.
C13_Pbkdf2FailureRecovered ==
  (pbkdf2_fails /\ pc = "exit" /\ query # "") =>
    /\ exit_code = Some(0)
    /\ result # None
    /\ \A input \in DOMAIN kdf : input[1] = "sha256*" /\ Len(kdf[input]) >= 32


\* The places in the available hashes of those starting with the choice the
\* reveal loop is at
MatchingNow ==
  {i \in DOMAIN available_hashes :
     startswith(available_hashes[i], choices[Len(drawn_cards) + 1])}

RevealTurn == prog = "TAROT" /\ pc = "reveal" /\ Len(drawn_cards) < Len(choices)

C14_Turn ==
  RevealTurn =>
    IF Cardinality(MatchingNow) = 1
    THEN \E i \in MatchingNow :
           /\ drawn_cards' = Append(drawn_cards,
                                    interactive_deck[dict_get(interactive_deck,
                                                              available_hashes[i])].value)
           /\ startswith(drawn_cards'[Len(drawn_cards')].hash_digest, available_hashes[i])
           /\ available_hashes' =
                [j \in 1..(Len(available_hashes) - 1) |->
                   available_hashes[IF j < i THEN j ELSE j + 1]]
           /\ pc' = "reveal"
    ELSE /\ drawn_cards' = drawn_cards
         /\ available_hashes' = available_hashes
         /\ pc' = "exit"
         /\ shown' = Append(shown,
                            [kind |-> IF MatchingNow = {} THEN "invalid" ELSE "ambiguous",
                             index |-> Len(drawn_cards) + 1,
                             choice |-> choices[Len(drawn_cards) + 1]])

\* C14: in the hash-prefix mode a choice is resolved to a card only when
\* exactly one still-available hash starts with it; with several or none the
\* reading stops at that choice with a message and no card is picked for it.
C14_UniquePrefixOrStop == [][C14_Turn]_vars

\* A reading stopped at an ambiguous choice after an earlier choice was resolved
C14_Witness ==
  /\ prog = "TAROT"
  /\ pc = "exit"
  /\ Len(drawn_cards) >= 1
  /\ Len(drawn_cards) < Len(choices)
  /\ Cardinality(MatchingNow) > 1
  /\ shown[Len(shown)].kind = "ambiguous"


\* The run stopped at a choice that is ambiguous or matches nothing
StoppedAtChoice ==
  /\ prog = "TAROT"
  /\ pc = "exit"
  /\ shown # << >>
  /\ shown[Len(shown)].kind \in {"ambiguous", "invalid"}

\* C15: when the k-th choice, k >= 1 counted from 0, is ambiguous or
\* unmatched, neither the cards of the choices before it nor the overview are
\* shown.
C15_NothingShownOfStoppedReading ==
  (StoppedAtChoice /\ shown[Len(shown)].index >= 2) =>
    \A n \in DOMAIN shown : shown[n].kind \notin {"card", "overview"}


\* C16: two runs of I-CHING3 with the same query and the same --seed give
\* the same six lines and the same primary, relating and nuclear patterns,
\* whatever the seconds they run at.
C16_SameSeedSameReading ==
  (prog = "I-CHING3" /\ arg_seed # None /\ history # << >> /\ result # None) =>
    /\ result[1].primary_lines = history[1].reading.primary_lines
    /\ result[1].primary_bits = history[1].reading.primary_bits
    /\ result[1].relating_bits = history[1].reading.relating_bits
    /\ result[1].nuclear_bits = history[1].reading.nuclear_bits


\* The block the i-th drawn card was derived from: by its salt in
\* tarot_reader, by its hash among the derived blocks in TAROT
BlockOfDrawn(i) ==
  IF prog = "tarot_reader"
  THEN kdf[derive_protected_key(seed, card_salt(i - 1))]
  ELSE kdf[CHOOSE input \in DOMAIN kdf : hexdigits(kdf[input]) = drawn_cards[i].hash_digest]

\* The lowest bit of the last byte of a block is 1
LastBitSet(block) == (block[Len(block)] % 2) = 1

\* tarot_reader has no option to disable reversals
ReversalsOn == prog = "TAROT" => reversals_enabled

\* C17: a drawn card is reversed exactly when the lowest bit of the last byte
\* of its block is 1 and reversals are not disabled; with reversals disabled
\* no card is reversed.
C17_ReversedIffLastBit ==
  prog \in {"tarot_reader", "TAROT"} =>
    \A i \in DOMAIN drawn_cards :
      drawn_cards[i].is_reversed <=> (LastBitSet(BlockOfDrawn(i)) /\ ReversalsOn)

\* With reversals disabled, a card whose block ends in an odd byte is drawn
\* upright
C17_Witness ==
  /\ prog = "TAROT"
  /\ \E i \in DOMAIN drawn_cards :
       /\ LastBitSet(BlockOfDrawn(i))
       /\ ~reversals_enabled
       /\ ~drawn_cards[i].is_reversed


\* The spread choice as given, without the blanks around it
ChosenSpread == strip(typed_spread[1])

\* The texts that name a spread size, and the size each names
SizeTexts == {<<"1">>, <<"3">>, <<"1", "0">>}

SizeOf(text) == IF text = <<"1">> THEN 1 ELSE IF text = <<"3">> THEN 3 ELSE 10

\* C18: every completed tarot spread has exactly N cards, N the chosen size,
\* one of 1, 3 and 10; a choice outside them never gives a spread of another
\* length: tarot_reader rejects it before any seed or card is derived,
\* RepeatTarot draws one card.
C18_SpreadHasChosenLength ==
  /\ (prog = "tarot_reader" /\ result # None) =>
       /\ ChosenSpread \in SizeTexts
       /\ Len(result[1].drawn_cards) = SizeOf(ChosenSpread)
  /\ (prog = "tarot_reader" /\ pc # "main" /\ typed_spread # None
        /\ ChosenSpread \notin SizeTexts) =>
       /\ pc = "exit"
       /\ exit_code = Some(1)
       /\ seed = << >>
       /\ kdf = << >>
       /\ drawn_cards = << >>
       /\ result = None
  /\ (prog = "RepeatTarot" /\ result # None) =>
       Len(result[1]) = (IF ChosenSpread \in SizeTexts THEN SizeOf(ChosenSpread)
                         ELSE IF ChosenSpread = <<"0", "3">> THEN 3 ELSE 1)
  /\ (prog = "TAROT" /\ pc = "exit" /\ shown # << >>
        /\ shown[Len(shown)].kind = "overview") =>
       /\ spread \in {1, 3, 10}
       /\ Len(drawn_cards) = spread
       /\ Len(shown[Len(shown)].rows) = spread

\* tarot_reader completed the spread of ten that was chosen
C18_Witness ==
  /\ prog = "tarot_reader"
  /\ result # None
  /\ ChosenSpread = <<"1", "0">>
  /\ Len(result[1].drawn_cards) = 10


\* The save file cannot be written, or the bundle cannot be loaded
SaveOrBundleFails == (arg_save /\ save_fails) \/ (arg_bundle /\ bundle_fails)

\* What the programs report of those failures
FailureReports ==
  {"Warning: failed to load bundle", "Warning: failed to autosave", "Failed to save reading"}

\* C19: a failure to write the save file or to load the bundle does not block
\* or change the hexagram reading: the run of an accepted query ends with the
\* reading computed and displayed in full, the failure reported, and status 0.
C19_SaveFailureOnlyWarned ==
  (prog \in Programs /\ SaveOrBundleFails /\ pc = "exit" /\ query # ""
     /\ ~pbkdf2_fails) =>
    /\ result # None
    /\ shown = <<IF prog = "I-CHING" THEN print_result(result[1], show_nuclear)
                 ELSE display_reading(result[1])>>
    /\ exit_code = Some(0)
    /\ warned # << >>
    /\ \A n \in DOMAIN warned : warned[n] \in FailureReports

\* A run of I-CHING.py that could not write its autosave file has ended
C19_Witness ==
  /\ prog = "I-CHING"
  /\ arg_save
  /\ save_fails
  /\ pc = "exit"
  /\ result # None
  /\ warned[Len(warned)] = "Warning: failed to autosave"


\* The number of set bits of each value 0..7 of the three lowest bits
SetBitsOfThree == <<0, 1, 1, 2, 1, 2, 2, 3>>

\* C20: for every byte 0 of a block, the line value is 6 plus the number of
\* set bits among its three lowest bits: in 6..9, 6 when they are all 0, 9
\* when all 1, whatever the higher bits of byte 0 and the other bytes.
C20_LineValueOfLowThreeBits ==
  (pc = "returned" /\ line_out # None) =>
    /\ line_out[1] = 6 + SetBitsOfThree[(in_block[1] % 8) + 1]
    /\ line_out[1] \in {6, 7, 8, 9}
    /\ (in_block[1] % 8 = 0) => line_out[1] = 6
    /\ (in_block[1] % 8 = 7) => line_out[1] = 9

\* The function returned 9 for a byte 0 with higher bits set, in a block
\* whose other bytes are not 0
C20_Witness ==
  /\ pc = "returned"
  /\ in_block[1] = 15
  /\ in_block[2] = 255
  /\ line_out = Some(9)


\* C21: in every hexagram reading the primary bit of each position is 0 when
\* its line is 6 or 8 and 1 when it is 7 or 9, and the moving positions are
\* exactly the positions whose line is 6 or 9, 0-based and strictly ascending.
C21_BitsAndMovingFollowLines ==
  result # None =>
    /\ \A i \in 0..5 :
         Reading.primary_bits[i + 1] = (IF ReadingLines[i + 1] \in {6, 8} THEN 0 ELSE 1)
    /\ Elements(ReadingMoving) = {i \in 0..5 : ReadingLines[i + 1] \in {6, 9}}
    /\ \A j \in 1..(Len(ReadingMoving) - 1) : ReadingMoving[j] < ReadingMoving[j + 1]

\* A reading of I-CHING3 with all four line values, three of them moving
C21_Witness ==
  /\ result # None
  /\ prog = "I-CHING3"
  /\ Reading.primary_lines = <<9, 8, 7, 6, 6, 7>>
  /\ Reading.primary_bits = <<1, 0, 1, 0, 0, 1>>
  /\ Reading.moving_positions = <<0, 3, 4>>


\* The trigrams by index, as the claim lists them
TrigramOrder ==
  <<"Earth", "Mountain", "Water", "Wind", "Thunder", "Fire", "Lake", "Heaven">>

\* The trigram a program's function gives three bits
TrigramOf(bits3) ==
  IF prog = "I-CHING" THEN trigram_from_bits(bits3) ELSE bits_to_trigram(bits3)

\* C22: the trigram of three bits b0, b1, b2, bottom first, is the entry at
\* index b0 + 2*b1 + 4*b2 of Earth, Mountain, Water, Wind, Thunder, Fire,
\* Lake, Heaven; no other triple gives the same trigram; the lower trigram is
\* that of bits 0..2 and the upper that of bits 3..5.
C22_TrigramByIndex ==
  (pc = "named" /\ meta # None) =>
    /\ meta[1].lower = TrigramOrder[in_bits[1] + 2 * in_bits[2] + 4 * in_bits[3] + 1]
    /\ meta[1].upper = TrigramOrder[in_bits[4] + 2 * in_bits[5] + 4 * in_bits[6] + 1]
    /\ \A t \in [1..3 -> {0, 1}] :
         TrigramOf(t) = meta[1].lower => t = SubSeq(in_bits, 1, 3)

\* Bits 1, 0, 0 below and 0, 1, 1 above are named Mountain and Lake
C22_Witness ==
  /\ pc = "named"
  /\ in_bits = <<1, 0, 0, 0, 1, 1>>
  /\ meta = Some([lower |-> "Mountain", upper |-> "Lake"])


\* The big-endian unsigned integer of the first 8 bytes of a block, modulo n,
\* taken byte by byte from the most significant
First8Mod(block, n) ==
  LET step(acc, byte) == (acc * 256 + byte) % n
  IN  step(step(step(step(step(step(step(step(0, block[1]), block[2]), block[3]),
        block[4]), block[5]), block[6]), block[7]), block[8])

\* The deck positions not yet drawn, in ascending order
RemainingAscending ==
  LET left == DeckPositions \ Elements(DrawnPositions)
  IN  /\ Elements(available_indices) = left
      /\ Len(available_indices) = Cardinality(left)
      /\ \A i \in 1..(Len(available_indices) - 1) :
           available_indices[i] < available_indices[i + 1]

C23_Draw ==
  (prog = "tarot_reader" /\ pc = "cards" /\ Len(drawn_cards') = Len(drawn_cards) + 1) =>
    LET k == Len(drawn_cards)
        block == kdf'[derive_protected_key(seed, card_salt(k))]
        at == First8Mod(block, 78 - k)
    IN  /\ RemainingAscending
        /\ Len(available_indices) = 78 - k
        /\ drawn_cards'[k + 1].card.deck_position = available_indices[at + 1]
        /\ drawn_cards'[k + 1].card = deck[available_indices[at + 1] + 1]
        /\ available_indices' =
             [j \in 1..(77 - k) |-> available_indices[IF j <= at THEN j ELSE j + 1]]

\* C23: at draw k of TarotReader.draw_cards the pool holds the 78 - k deck
\* positions not yet drawn in ascending order, the card drawn is the pool
\* element at index v mod (78 - k), v the big-endian integer of the first 8
\* bytes of the block of label card-k, and that element leaves the pool.
C23_DrawnAtIndexOfPool == [][C23_Draw]_vars

\* Three draws whose blocks begin 0..05, 2^56 and 0..05: indices 5, 53 and 5
\* of the pools of 78, 77 and 76, the positions 5, 54 and 6
C23_Witness ==
  /\ prog = "tarot_reader"
  /\ pc = "cards"
  /\ Len(drawn_cards) = 3
  /\ DrawnPositions = <<5, 54, 6>>
  /\ Len(available_indices) = 75


\* The entries of the pool that a deck position backs
BackedBy(position) ==
  {n \in DOMAIN interactive_deck :
     interactive_deck[n].value.card.deck_position = position}

\* C24: the pool prepare_interactive_deck returns has exactly 78 entries with
\* reversals disabled and 156 with reversals enabled, and every deck position
\* backs exactly one entry, or exactly two with reversals enabled.
C24_PoolOfEveryPosition ==
  (prog = "TAROT" /\ pc \notin {"main", "exit"}) =>
    /\ Len(interactive_deck) = (IF reversals_enabled THEN 156 ELSE 78)
    /\ \A position \in DeckPositions :
         Cardinality(BackedBy(position)) = (IF reversals_enabled THEN 2 ELSE 1)


\* The programs that read the time for their seed
Timed == {"I-CHING", "I-CHING3", "tarot_reader"}

\* The seed is that of the query and of the timestamp read (of the query alone
\* in TAROT), and every block derived so far was derived from it
OneSeed ==
  /\ (prog \in Timed /\ seed = << >>) =>
       /\ ts = ""
       /\ kdf = << >>
       /\ lines = << >>
       /\ drawn_cards = << >>
  /\ (prog \in Timed /\ seed # << >>) =>
       /\ ts # ""
       /\ seed = <<"sha256", query \o "|" \o ts>>
       /\ \A input \in DOMAIN kdf : input[2] = seed
  /\ (prog = "TAROT" /\ pc # "main") =>
       \A i \in DOMAIN drawn_cards :
         \E input \in DOMAIN kdf :
           /\ input[2] = <<"sha256", query>>
           /\ hexdigits(kdf[input]) = drawn_cards[i].hash_digest

\* Once read, the timestamp stays; once computed, the seed stays
SeedKept ==
  /\ ts # "" => ts' = ts
  /\ seed # << >> => seed' = seed

\* C25: within one reading the timestamp is read once and the seed computed
\* once, as SHA-256 of query|timestamp (of the query alone in TAROT's
\* interactive mode), before the first slot derivation; every slot is derived
\* from that seed and no later step changes it.
C25_OneSeedAReading == []OneSeed /\ [][SeedKept]_vars

\* A reading of I-CHING3 returned with the timestamp of second 0 after the
\* clock reached second 1
C25_Witness ==
  /\ prog = "I-CHING3"
  /\ pc = "done"
  /\ ts = isoformat(0)
  /\ clock = 1
  /\ Len(lines) = 6
  /\ Cardinality(DOMAIN kdf) = 7


\* The pool of all 78 positions after the first k draws of the current seed,
\* each draw taking the element at the index its block gives
RECURSIVE PoolOfSeedAfter(_)
PoolOfSeedAfter(k) ==
  IF k = 0 THEN [i \in 1..78 |-> i - 1]
  ELSE LET before == PoolOfSeedAfter(k - 1)
           at == First8Mod(kdf[derive_protected_key(seed, card_salt(k - 1))], Len(before))
       IN  [j \in 1..(Len(before) - 1) |-> before[IF j <= at THEN j ELSE j + 1]]

\* The position draw k (from 0) of the current seed takes from that pool
PositionOfSeed(k) ==
  LET before == PoolOfSeedAfter(k)
  IN  before[First8Mod(kdf[derive_protected_key(seed, card_salt(k))], Len(before)) + 1]

\* C26: readings made one after another on one TarotReader are independent:
\* draw_cards leaves the deck as it is, each call starts from a pool of all 78
\* positions, and the cards of a seed are those its blocks select from that
\* pool, the same whether or not a reading was made before.
C26_ReadingsIndependent ==
  prog = "tarot_reader" =>
    /\ deck = build_deck
    /\ (pc = "cards" /\ drawn_cards = << >>) => available_indices = [i \in 1..78 |-> i - 1]
    /\ pc \in {"cards", "done"} =>
         \A i \in DOMAIN drawn_cards :
           drawn_cards[i].card = build_deck[PositionOfSeed(i - 1) + 1]
    /\ (history # << >> /\ result # None
          /\ result[1].metadata.seed_hash = history[1].reading.metadata.seed_hash) =>
         \A i \in DOMAIN result[1].drawn_cards \cap DOMAIN history[1].reading.drawn_cards :
           result[1].drawn_cards[i] = history[1].reading.drawn_cards[i]

\* A second reading of three cards returned after a first of three, for
\* another question
C26_Witness ==
  /\ prog = "tarot_reader"
  /\ history # << >>
  /\ result # None
  /\ Len(history[1].reading.drawn_cards) = 3
  /\ Len(result[1].drawn_cards) = 3
  /\ result[1].metadata.query # history[1].reading.metadata.query
  /\ result[1].drawn_cards[1].card = history[1].reading.drawn_cards[1].card


\* The derivation paths of the blocks derived so far
PathsTaken == {input[1] : input \in DOMAIN kdf}

NuclearOf(primary) ==
  IF prog = "I-CHING" THEN nuclear_from_bits(primary) ELSE cast_nuclear_bits(primary)

\* C28: the nuclear pattern N of a primary pattern has N[1] = N[3] and
\* N[2] = N[4] (positions counted from 0), is the same whatever primary bit 0
\* and primary bit 5 are, and so takes at most 16 values over the 64 primary
\* patterns.
C28_NuclearOfInnerLines ==
  pc = "taken" =>
    LET N == meta[1]
    IN  /\ Len(N) = 6
        /\ N[2] = N[4]
        /\ N[3] = N[5]
        /\ \A b0 \in {0, 1}, b5 \in {0, 1} :
             NuclearOf([in_bits EXCEPT ![1] = b0, ![6] = b5]) = N
        /\ Cardinality({NuclearOf(primary) : primary \in Patterns}) <= 16

\* The nuclear pattern taken of a primary pattern whose two outer lines differ
\* from the lines next to them
C28_Witness ==
  /\ pc = "taken"
  /\ in_bits = <<1, 0, 1, 1, 0, 1>>
  /\ meta = Some(<<0, 1, 1, 1, 1, 0>>)


\* The pool entries revealed so far, by the label each was shown under
Revealed == SelectSeq(shown, LAMBDA line : line.kind = "card")

\* No pool entry is revealed twice, and none revealed is still selectable
NoEntryRevealedTwice ==
  prog = "TAROT" =>
    /\ \A m \in DOMAIN Revealed, n \in DOMAIN Revealed :
         m # n => Revealed[m].choice # Revealed[n].choice
    /\ \A m \in DOMAIN Revealed, j \in DOMAIN available_hashes :
         available_hashes[j] # Revealed[m].choice
    /\ pc = "reveal" => Len(Revealed) = Len(drawn_cards)

\* A turn of the reveal loop on a prefix a card was already revealed for
SamePrefixAgain ==
  (/\ RevealTurn
   /\ \E j \in 1..Len(drawn_cards) : choices[j] = choices[Len(drawn_cards) + 1]) =>
    \/ /\ pc' = "exit"
       /\ drawn_cards' = drawn_cards
       /\ Len(shown') = Len(shown) + 1
       /\ shown'[Len(shown')].kind \in {"ambiguous", "invalid"}
    \/ /\ pc' = "reveal"
       /\ Len(shown') = Len(shown) + 1
       /\ shown'[Len(shown')].kind = "card"
       /\ \A m \in DOMAIN Revealed : Revealed[m].choice # shown'[Len(shown')].choice

\* C29: in the hash-prefix mode a revealed pool entry is removed from the
\* selectable hashes before the next choice is resolved: no pool entry is
\* revealed twice in one reading, and a prefix entered again resolves to a
\* different entry or ends the reading.
C29_RevealedOnce == []NoEntryRevealedTwice /\ [][SamePrefixAgain]_vars

\* A reading ended at its second choice, the prefix its first card was
\* revealed for
C29_Witness ==
  /\ prog = "TAROT"
  /\ pc = "exit"
  /\ Len(choices) = 3
  /\ choices[2] = choices[1]
  /\ Len(drawn_cards) = 1
  /\ Len(Revealed) = 1
  /\ startswith(Revealed[1].choice, choices[1])
  /\ shown[Len(shown)].kind = "invalid"
  /\ shown[Len(shown)].index = 2


\* A casting of I-CHING.py and one of I-CHING3.py made of the same seed
SameSeedCastings(c, d) ==
  /\ c.prog = "I-CHING"
  /\ d.prog = "I-CHING3"
  /\ CastSeed16(c) = CastSeed16(d)

\* C30: for every seed, cast_hexagram of I-CHING.py and IChing.cast of
\* I-CHING3.py compute the same six line values, the same primary bits, the
\* same moving positions, the same relating bits and the same nuclear bits:
\* the nuclear record of I-CHING.py is the record of the nuclear bits of
\* I-CHING3.py, and the two programs take the same line value of every block,
\* the same bit of every line value and the same nuclear bits of every
\* pattern.
C30_SameCastInBothPrograms ==
  /\ \A c, d \in Castings :
       SameSeedCastings(c, d) =>
         /\ Len(c.reading.lines) = 6
         /\ c.reading.lines = d.reading.primary_lines
         /\ c.reading.primary_bits = d.reading.primary_bits
         /\ c.reading.moving_indices = d.reading.moving_positions
         /\ c.reading.relating_bits = d.reading.relating_bits
         /\ (c.show_nuclear /\ d.show_nuclear) =>
              /\ d.reading.nuclear_bits # None
              /\ d.reading.nuclear_bits[1] = nuclear_from_bits(c.reading.primary_bits)
              /\ c.reading.nuclear_meta = Some(build_meta(d.reading.nuclear_bits[1]))
  /\ \A block \in HexEntropy : line_from_digest(block) = derive_line_value(block)
  /\ \A line \in 6..9 : yin_yang_bit(line) = line_to_yin_yang(line)
  /\ \A primary \in Patterns : nuclear_from_bits(primary) = cast_nuclear_bits(primary)

\* I-CHING3.py run after I-CHING.py within the second, both taking the nuclear
\* pattern, the casting one with three moving lines
C30_Witness ==
  /\ history # << >>
  /\ result # None
  /\ history[1].prog = "I-CHING"
  /\ prog = "I-CHING3"
  /\ history[1].show_nuclear
  /\ show_nuclear
  /\ hex_prefix(history[1].reading.seed_hex, 16) = result[1].seed_hash
  /\ result[1].moving_positions = <<0, 3, 5>>
  /\ result[1].relating_bits = Some(<<1, 0, 0, 1, 0, 1>>)
  /\ result[1].nuclear_bits = Some(<<0, 0, 0, 0, 0, 0>>)

=============================================================================
